---- MODULE Spec2Model ----
(***************************************************************************)
(* A model of the PRISM-2D knowledge-graph core: the string similarity     *)
(* scorer, the entity identity resolver and the consolidation engine of    *)
(* src/utils/graphUtils.ts, driven by the store's addGraphData of          *)
(* src/store/prismStore.ts.                                                *)
(*                                                                         *)
(* JavaScript strings that the code inspects character by character (ids,  *)
(* labels, aliases) are sequences of one-character strings; strings the    *)
(* code only carries along (type, summary, groupLabel, tags, relation) are *)
(* TLA+ strings.  An optional array field (tags?, aliases?) is a record    *)
(* [some, arr]; a relation endpoint is a record [obj, id], obj telling     *)
(* whether the field holds an entity reference or a bare id string.        *)
(***************************************************************************)
EXTENDS Integers, Sequences, FiniteSets, TLC

VARIABLES
  nodes,    \* the store's entity list
  links,    \* the store's relation list
  status,   \* the store's AppStatus
  calls,    \* number of addGraphData calls made so far
  last,     \* the addGraphData call made for the request in progress
  pending,  \* the generation requests in flight and their timers
  probe,    \* arguments and results of a function applied on its own
  providers,\* the AI service manager's providers and their models' quotas
  run,      \* the executeWithFallback call in progress, or the last one
  db        \* the database tables and the saveToDb calls in flight

vars == <<nodes, links, status, calls, last, pending, probe, providers, run, db>>

-----------------------------------------------------------------------------
(* Bounds of the model *)

MaxBatch == 2

MaxRels == 2

MaxCalls == 2

\* longest string given to the similarity scorer on its own
MaxStrLen == 3

\* generation requests awaiting their response at once
MaxPending == 2

\* generation requests that fail
MaxErrors == 1

\* executeWithFallback calls made
MaxRuns == 3

\* characters of a prompt and a short response text together
ShortLength == 2000

\* characters of a prompt and a response text longer than any quota
LongLength == 250000

\* nodes of an AI response sanitized on its own
MaxRawNodes == 2

\* links of an AI response sanitized on its own
MaxRawLinks == 1

\* entities of a batch in the store fed with entities that share an alias
MaxAliasBatch == 3

\* saveToDb calls in flight at once
MaxSaves == 2

-----------------------------------------------------------------------------
(* Generic helpers *)

Range(s) == {s[i] : i \in 1..Len(s)}

SeqsUpTo(S, n) == UNION {[1..k -> S] : k \in 0..n}

IsPrefix(s, t) == Len(s) <= Len(t) /\ \A i \in 1..Len(s) : s[i] = t[i]

\* new Set([...]) followed by Array.from: the first occurrence of each
\* element, in order.
RECURSIVE Dedupe(_)
Dedupe(s) ==
  IF s = <<>> THEN <<>>
  ELSE LET front == Dedupe(SubSeq(s, 1, Len(s) - 1))
           x == s[Len(s)]
       IN IF x \in Range(front) THEN front ELSE Append(front, x)

Min(a, b) == IF a <= b THEN a ELSE b

Max(a, b) == IF a >= b THEN a ELSE b

-----------------------------------------------------------------------------
(* Strings *)

UpperCase == <<"A","B","C","D","E","F","G","H","I","J","K","L","M",
               "N","O","P","Q","R","S","T","U","V","W","X","Y","Z">>

LowerCase == <<"a","b","c","d","e","f","g","h","i","j","k","l","m",
               "n","o","p","q","r","s","t","u","v","w","x","y","z">>

Digits == {"0","1","2","3","4","5","6","7","8","9"}

\* the lower-case letter of every upper-case letter
lowerOf == [c \in Range(UpperCase) |-> LowerCase[CHOOSE i \in 1..26 : UpperCase[i] = c]]

toLowerCaseChar(c) == IF c \in DOMAIN lowerOf THEN lowerOf[c] ELSE c

toLowerCase(s) == [i \in 1..Len(s) |-> toLowerCaseChar(s[i])]

\* s.toLowerCase().replace(/[^a-z0-9]/g, '')
AlphaNumeric == Range(LowerCase) \cup Digits

normalize(s) == SelectSeq(toLowerCase(s), LAMBDA c : c \in AlphaNumeric)

\* the set of substrings text.substring(i, i + 2), 0 <= i < text.length - 1
bigrams(text) == {SubSeq(text, i, i + 1) : i \in 1..(Len(text) - 1)}

\* Variant of jaccard: the intersection is measured against the first set.
jaccardOfFirst(set1, set2) ==
  IF set1 = {} \/ set2 = {} THEN [n |-> 0, d |-> 1]
  ELSE [n |-> Cardinality(set1 \cap set2), d |-> Cardinality(set1)]

\* intersection.size / union.size of two bigram sets, as an exact ratio n/d;
\* 0.0 when either set is empty.
jaccard(set1, set2) ==
  IF set1 = {} \/ set2 = {} THEN [n |-> 0, d |-> 1]
  ELSE [n |-> Cardinality(set1 \cap set2), d |-> Cardinality(set1 \cup set2)]

\* Variant of similarityOfNormalized: equal strings are scored by their
\* bigrams like any other pair.
similarityOfNormalizedByBigrams(s1, s2) ==
  IF s1 = <<>> \/ s2 = <<>> THEN [n |-> 0, d |-> 1]
  ELSE jaccard(bigrams(s1), bigrams(s2))

\* The body of calculateStringSimilarity on the normalized strings.
similarityOfNormalized(s1, s2) ==
  IF s1 = s2 THEN [n |-> 1, d |-> 1]
  ELSE IF s1 = <<>> \/ s2 = <<>> THEN [n |-> 0, d |-> 1]
  ELSE jaccard(bigrams(s1), bigrams(s2))

\* The score as an exact ratio n/d (d > 0).
calculateStringSimilarity(str1, str2) ==
  similarityOfNormalized(normalize(str1), normalize(str2))

\* Variant of ScoreAbove: a score equal to the threshold passes.
ScoreAtLeast(score, pct) == score.n * 100 >= pct * score.d

\* score > pct/100
ScoreAbove(score, pct) == score.n * 100 > pct * score.d

LabelThreshold == 85

AliasThreshold == 90

-----------------------------------------------------------------------------
(* Entity identity *)

Undef == [some |-> FALSE, arr |-> <<>>]

Arr(s) == [some |-> TRUE, arr |-> s]

\* Variant of isSameEntity: the exact-id rule is missing.
isSameEntityNoId(nodeA, nodeB) ==
  \/ toLowerCase(nodeA.label) = toLowerCase(nodeB.label)
  \/ ScoreAbove(calculateStringSimilarity(nodeA.label, nodeB.label), LabelThreshold)
  \/ /\ nodeA.aliases.some
     /\ nodeB.aliases.some
     /\ \E aliasA \in Range(nodeA.aliases.arr) :
          \E aliasB \in Range(nodeB.aliases.arr) :
            \/ toLowerCase(aliasA) = toLowerCase(aliasB)
            \/ ScoreAbove(calculateStringSimilarity(aliasA, aliasB), AliasThreshold)

isSameEntity(nodeA, nodeB) ==
  \/ nodeA.id = nodeB.id
  \/ toLowerCase(nodeA.label) = toLowerCase(nodeB.label)
  \/ ScoreAbove(calculateStringSimilarity(nodeA.label, nodeB.label), LabelThreshold)
  \/ /\ nodeA.aliases.some
     /\ nodeB.aliases.some
     /\ \E aliasA \in Range(nodeA.aliases.arr) :
          \E aliasB \in Range(nodeB.aliases.arr) :
            \/ toLowerCase(aliasA) = toLowerCase(aliasB)
            \/ ScoreAbove(calculateStringSimilarity(aliasA, aliasB), AliasThreshold)

-----------------------------------------------------------------------------
(* Consolidation engine *)

MaxSignificance == 10

\* A bare-id endpoint and an embedded entity reference.
Id(s) == [obj |-> FALSE, id |-> s]

Ref(s) == [obj |-> TRUE, id |-> s]

\* Variant of rawId: an entity reference is used as a string, which gives
\* '[object Object]' for every reference.
rawIdOfString(endpoint) ==
  IF endpoint.obj
  THEN <<"[","o","b","j","e","c","t"," ","O","b","j","e","c","t","]">>
  ELSE endpoint.id

\* typeof e === 'object' ? e.id : e
rawId(endpoint) == IF endpoint.obj THEN endpoint.id ELSE endpoint.id

\* Variant of nodeMapGet: an id that is not in the map resolves to itself.
nodeMapGetOrRaw(nodeMap, key) ==
  LET hits == {i \in 1..Len(nodeMap) : nodeMap[i].key = key}
  IN IF hits = {} THEN [some |-> TRUE, v |-> key]
     ELSE [some |-> TRUE, v |-> nodeMap[CHOOSE i \in hits : \A j \in hits : j <= i].value]

\* nodeMap is the sequence of the Map's set() calls; get() answers with the
\* latest value set for the key, or undefined.
nodeMapGet(nodeMap, key) ==
  LET hits == {i \in 1..Len(nodeMap) : nodeMap[i].key = key}
  IN IF hits = {} THEN [some |-> FALSE, v |-> <<>>]
     ELSE [some |-> TRUE, v |-> nodeMap[CHOOSE i \in hits : \A j \in hits : j <= i].value]

\* JavaScript truthiness of the result of get(): defined and not ''.
Truthy(r) == r.some /\ r.v # <<>>

\* Variant of existingMatchIndex: the last matching entity is taken.
existingMatchIndexLast(finalNodes, newNode) ==
  LET hits == {i \in 1..Len(finalNodes) : isSameEntity(finalNodes[i], newNode)}
  IN IF hits = {} THEN 0 ELSE CHOOSE i \in hits : \A j \in hits : j <= i

\* finalNodes.find(existing => isSameEntity(existing, newNode)) as an index,
\* 0 when nothing is found.
existingMatchIndex(finalNodes, newNode) ==
  LET hits == {i \in 1..Len(finalNodes) : isSameEntity(finalNodes[i], newNode)}
  IN IF hits = {} THEN 0 ELSE CHOOSE i \in hits : \A j \in hits : i <= j

\* Variant of mergeSignificance: the incoming score replaces the old one.
mergeSignificanceLatest(existingSig, newSig) == Min(MaxSignificance, newSig)

mergeSignificance(existingSig, newSig) ==
  Min(MaxSignificance, Max(existingSig, newSig))

\* Variant of mergeNode: the incoming tags and aliases replace the old ones.
mergeNodeReplacesTags(existingMatch, newNode) ==
  [existingMatch EXCEPT
     !.tags = Arr(Dedupe(newNode.tags.arr)),
     !.aliases = Arr(Dedupe(newNode.aliases.arr)),
     !.metrics = [significance |->
                    Min(MaxSignificance, Max(existingMatch.metrics.significance,
                                             newNode.metrics.significance))]]

\* Variant of mergeNode: the incoming summary and coordinates win.
mergeNodeLatestWins(existingMatch, newNode) ==
  [existingMatch EXCEPT
     !.summary = newNode.summary,
     !.pos = newNode.pos,
     !.tags = Arr(Dedupe(existingMatch.tags.arr \o newNode.tags.arr)),
     !.aliases = Arr(Dedupe(existingMatch.aliases.arr \o newNode.aliases.arr)),
     !.metrics = [significance |->
                    Min(MaxSignificance, Max(existingMatch.metrics.significance,
                                             newNode.metrics.significance))]]

mergeNode(existingMatch, newNode) ==
  [existingMatch EXCEPT
     !.tags = Arr(Dedupe(existingMatch.tags.arr \o newNode.tags.arr)),
     !.aliases = Arr(Dedupe(existingMatch.aliases.arr \o newNode.aliases.arr)),
     !.metrics = [significance |->
                    mergeSignificance(existingMatch.metrics.significance,
                                      newNode.metrics.significance)]]

\* One iteration of newNodes.forEach.  nodeLog records, for every incoming
\* entity, the list before it was processed and the index of the entity it
\* was merged into (0: appended).
\* Variant of mergeOrPush: a matched entity is merged and pushed as well.
mergeOrPushKeepsBoth(st, newNode, i) ==
  IF i > 0
  THEN [finalNodes |-> Append([st.finalNodes EXCEPT ![i] = mergeNode(@, newNode)], newNode),
        nodeMap |-> Append(st.nodeMap, [key |-> newNode.id, value |-> st.finalNodes[i].id]),
        mergedCount |-> st.mergedCount + 1,
        nodeLog |-> Append(st.nodeLog, [at |-> i, incoming |-> newNode,
                                        before |-> st.finalNodes])]
  ELSE [finalNodes |-> Append(st.finalNodes, newNode),
        nodeMap |-> Append(st.nodeMap, [key |-> newNode.id, value |-> newNode.id]),
        mergedCount |-> st.mergedCount,
        nodeLog |-> Append(st.nodeLog, [at |-> 0, incoming |-> newNode,
                                        before |-> st.finalNodes])]

\* Variant of mergeOrPush: an appended entity is counted as merged too.
mergeOrPushCountsAll(st, newNode, i) ==
  IF i > 0
  THEN [finalNodes |-> [st.finalNodes EXCEPT ![i] = mergeNode(@, newNode)],
        nodeMap |-> Append(st.nodeMap, [key |-> newNode.id, value |-> st.finalNodes[i].id]),
        mergedCount |-> st.mergedCount + 1,
        nodeLog |-> Append(st.nodeLog, [at |-> i, incoming |-> newNode,
                                        before |-> st.finalNodes])]
  ELSE [finalNodes |-> Append(st.finalNodes, newNode),
        nodeMap |-> Append(st.nodeMap, [key |-> newNode.id, value |-> newNode.id]),
        mergedCount |-> st.mergedCount + 1,
        nodeLog |-> Append(st.nodeLog, [at |-> 0, incoming |-> newNode,
                                        before |-> st.finalNodes])]

\* The two branches of the iteration: i > 0 is the index of existingMatch,
\* i = 0 the case that find() returned undefined.
mergeOrPush(st, newNode, i) ==
  IF i > 0
  THEN [finalNodes |-> [st.finalNodes EXCEPT ![i] = mergeNode(@, newNode)],
        nodeMap |-> Append(st.nodeMap, [key |-> newNode.id, value |-> st.finalNodes[i].id]),
        mergedCount |-> st.mergedCount + 1,
        nodeLog |-> Append(st.nodeLog, [at |-> i, incoming |-> newNode,
                                        before |-> st.finalNodes])]
  ELSE [finalNodes |-> Append(st.finalNodes, newNode),
        nodeMap |-> Append(st.nodeMap, [key |-> newNode.id, value |-> newNode.id]),
        mergedCount |-> st.mergedCount,
        nodeLog |-> Append(st.nodeLog, [at |-> 0, incoming |-> newNode,
                                        before |-> st.finalNodes])]

\* Variant of processNode: every incoming entity is appended.
processNodeAlwaysPush(st, newNode) == mergeOrPush(st, newNode, 0)

processNode(st, newNode) ==
  mergeOrPush(st, newNode, existingMatchIndex(st.finalNodes, newNode))

RECURSIVE processNodes(_, _)
processNodes(st, newNodes) ==
  IF newNodes = <<>> THEN st
  ELSE processNodes(processNode(st, Head(newNodes)), Tail(newNodes))

signature(s, t) == s \o <<"|">> \o t

\* One iteration of newLinks.forEach.  linkLog records, for every incoming
\* relation, its resolved endpoints and whether it was accepted.
\* Variant of acceptsLink: only the forward signature is looked up.
acceptsLinkDirected(linkSignature, resolvedSource, resolvedTarget) ==
  /\ Truthy(resolvedSource)
  /\ Truthy(resolvedTarget)
  /\ resolvedSource.v # resolvedTarget.v
  /\ signature(resolvedSource.v, resolvedTarget.v) \notin linkSignature

\* Variant of acceptsLink: equal resolved endpoints are not rejected.
acceptsLinkAllowsLoops(linkSignature, resolvedSource, resolvedTarget) ==
  /\ Truthy(resolvedSource)
  /\ Truthy(resolvedTarget)
  /\ signature(resolvedSource.v, resolvedTarget.v) \notin linkSignature
  /\ signature(resolvedTarget.v, resolvedSource.v) \notin linkSignature

acceptsLink(linkSignature, resolvedSource, resolvedTarget) ==
  /\ Truthy(resolvedSource)
  /\ Truthy(resolvedTarget)
  /\ resolvedSource.v # resolvedTarget.v
  /\ signature(resolvedSource.v, resolvedTarget.v) \notin linkSignature
  /\ signature(resolvedTarget.v, resolvedSource.v) \notin linkSignature

pushOrDrop(st, link, resolvedSource, resolvedTarget) ==
  IF acceptsLink(st.linkSignature, resolvedSource, resolvedTarget)
  THEN [linkSignature |-> st.linkSignature
                            \cup {signature(resolvedSource.v, resolvedTarget.v)},
        validNewLinks |-> Append(st.validNewLinks,
                                 [source |-> Id(resolvedSource.v),
                                  target |-> Id(resolvedTarget.v),
                                  relation |-> link.relation,
                                  weight |-> link.weight]),
        linkLog |-> Append(st.linkLog,
                           [link |-> link, resolvedSource |-> resolvedSource,
                            resolvedTarget |-> resolvedTarget, accepted |-> TRUE])]
  ELSE [st EXCEPT !.linkLog =
          Append(st.linkLog,
                 [link |-> link, resolvedSource |-> resolvedSource,
                  resolvedTarget |-> resolvedTarget, accepted |-> FALSE])]

\* Variant of processLink: once a relation has been dropped, the rest of the
\* batch is discarded.
processLinkAbortsAfterDrop(st, nodeMap, link) ==
  IF \E k \in 1..Len(st.linkLog) : ~st.linkLog[k].accepted
  THEN st
  ELSE pushOrDrop(st, link, nodeMapGet(nodeMap, rawId(link.source)),
                            nodeMapGet(nodeMap, rawId(link.target)))

processLink(st, nodeMap, link) ==
  pushOrDrop(st, link, nodeMapGet(nodeMap, rawId(link.source)),
                       nodeMapGet(nodeMap, rawId(link.target)))

RECURSIVE processLinks(_, _, _)
processLinks(st, nodeMap, newLinks) ==
  IF newLinks = <<>> THEN st
  ELSE processLinks(processLink(st, nodeMap, Head(newLinks)), nodeMap, Tail(newLinks))

\* linkSignature as first built from the existing relations
existingSignatures(existingLinks) ==
  {signature(rawId(existingLinks[i].source), rawId(existingLinks[i].target)) :
     i \in 1..Len(existingLinks)}

\* Variant of consolidationResult: the new relations come first.
consolidationResultNewFirst(existingLinks, n, l) ==
  [nodes |-> n.finalNodes,
   links |-> l.validNewLinks \o existingLinks,
   mergedCount |-> n.mergedCount,
   nodeMap |-> n.nodeMap,
   nodeLog |-> n.nodeLog,
   linkLog |-> l.linkLog]

\* The returned object, with the call's nodeMap and logs beside it.
consolidationResult(existingLinks, n, l) ==
  [nodes |-> n.finalNodes,
   links |-> existingLinks \o l.validNewLinks,
   mergedCount |-> n.mergedCount,
   nodeMap |-> n.nodeMap,
   nodeLog |-> n.nodeLog,
   linkLog |-> l.linkLog]

\* Step 2 of the function, given the outcome n of step 1.
rewireLinks(existingLinks, newLinks, n) ==
  consolidationResult(existingLinks, n,
    processLinks([linkSignature |-> existingSignatures(existingLinks),
                  validNewLinks |-> <<>>, linkLog |-> <<>>], n.nodeMap, newLinks))

\* Variant of consolidateGraphData: the result list starts empty instead of
\* as a copy of the existing entities.
consolidateGraphDataFromEmpty(existingNodes, existingLinks, newNodes, newLinks) ==
  rewireLinks(existingLinks, newLinks,
    processNodes([finalNodes |-> <<>>, nodeMap |-> <<>>,
                  mergedCount |-> 0, nodeLog |-> <<>>], newNodes))

consolidateGraphData(existingNodes, existingLinks, newNodes, newLinks) ==
  rewireLinks(existingLinks, newLinks,
    processNodes([finalNodes |-> existingNodes, nodeMap |-> <<>>,
                  mergedCount |-> 0, nodeLog |-> <<>>], newNodes))

-----------------------------------------------------------------------------
(* Data: the seed graph of the store and the batches an AI response can hold *)

NoPos == [some |-> FALSE, x |-> 0, y |-> 0]

Node(id, label, type, summary, groupLabel, significance, tags, aliases) ==
  [id |-> id, label |-> label, type |-> type, summary |-> summary,
   groupLabel |-> groupLabel, metrics |-> [significance |-> significance],
   tags |-> tags, aliases |-> aliases, pos |-> NoPos]

\* The same entity carrying coordinates x, y.
At(node, x, y) == [node EXCEPT !.pos = [some |-> TRUE, x |-> x, y |-> y]]

Link(source, target, relation, weight) ==
  [source |-> source, target |-> target, relation |-> relation, weight |-> weight]

id_ancient_aliens == <<"a","n","c","i","e","n","t","_","a","l","i","e","n","s">>

id_nazca_lines == <<"n","a","z","c","a","_","l","i","n","e","s">>

id_the_greys == <<"t","h","e","_","g","r","e","y","s">>

id_lines == <<"l","i","n","e","s">>

id_greys == <<"g","r","e","y","s">>

id_fbi == <<"f","b","i">>

id_g == <<"g">>

id_ghost == <<"x">>

\* Three entities and one relation of INITIAL_NODES / INITIAL_LINKS, in
\* their order, summaries shortened; weights are in tenths.
INITIAL_NODES ==
  << Node(id_ancient_aliens, <<"A","n","c","i","e","n","t"," ","A","l","i","e","n","s">>,
          "Entity Group", "Theoretical extraterrestrial visitors", "Organization",
          9, Arr(<<"gods", "visitors", "sky_people">>), Undef),
     Node(id_nazca_lines, <<"N","a","z","c","a"," ","L","i","n","e","s">>,
          "Archaeological Site", "Geoglyphs in the Nazca Desert", "Location",
          6, Arr(<<"peru", "geoglyphs", "archaeology">>), Undef),
     Node(id_the_greys, <<"T","h","e"," ","G","r","e","y","s">>,
          "Biological Entity", "Grey-skinned humanoids", "Person",
          7, Arr(<<"biology", "future_humans", "abductors">>), Undef) >>

INITIAL_LINKS ==
  << Link(Id(id_ancient_aliens), Id(id_nazca_lines), "ALLEGEDLY_CONSTRUCTED", 6) >>

\* Entities of an incoming batch.  The batches are those addGraphData and
\* consolidateGraphData accept, whatever their origin.
\*   NewNazca bears the id of nazca_lines and the label of ancient_aliens;
\*   NewLines matches nazca_lines by label, ignoring case;
\*   NewGreys matches the_greys by its normalized label only;
\*   NewTheGreys matches the_greys by id only;
\*   NewFbi and NewG match each other by alias only and carry coordinates,
\*   and NewG scores above the 1-10 scale (the fields of a response are not
\*   validated).
NewNazca == Node(id_nazca_lines, <<"a","n","c","i","e","n","t"," ","a","l","i","e","n","s">>,
                 "Visitors", "Ancient visitors", "Concept", 8, Undef, Undef)

NewLines == Node(id_lines, <<"N","A","Z","C","A"," ","L","I","N","E","S">>,
                 "Geoglyph", "Lines in Peru", "Event", 8, Arr(<<"peru", "desert">>), Undef)

NewGreys == Node(id_greys, <<"T","h","e","-","G","r","e","y","s">>,
                 "Species", "Greys", "Concept", 7, Arr(<<>>), Arr(<< <<"Z","e","t","a">> >>))

NewTheGreys == Node(id_the_greys, <<"Z","e","t","a","s">>,
                    "Aliens", "Zeta Reticulans", "Organization",
                    8, Arr(<<"biology", "zeta">>), Arr(<< <<"z","e","t","a">> >>))

NewFbi == At(Node(id_fbi, <<"F","B","I">>, "Bureau", "Federal Bureau", "Organization",
                  9, Undef, Arr(<< <<"B","u","r">> >>)), 1, 2)

NewG == At(Node(id_g, <<"G","-","m","e","n">>, "Agents", "Federal agents", "Person",
                MaxSignificance + 2, Arr(<<"Police">>),
                Arr(<< <<"b","u","r">>, <<"G">> >>)), 3, 4)

NodePool == {NewNazca, NewLines, NewGreys, NewTheGreys, NewFbi, NewG}

LinkPool ==
  { Link(Id(id_nazca_lines), Id(id_the_greys), "DEPICTS", 5),
    Link(Id(id_lines), Id(id_nazca_lines), "CONSTRUCTED_BY", 6),
    Link(Id(id_g), Id(id_fbi), "WORKS_FOR", 7),
    Link(Id(id_lines), Id(id_fbi), "WATCHED_BY", 8),
    Link(Id(id_greys), Id(id_fbi), "HUNTED_BY", 4),
    Link(Ref(id_fbi), Ref(id_greys), "HUNTS", 3),
    Link(Id(id_fbi), Id(id_ghost), "SEEKS", 2) }

NodeBatches == SeqsUpTo(NodePool, MaxBatch)

LinkBatches == SeqsUpTo(LinkPool, MaxRels)

\* The store's own relations as an AI response states them: bare ids.
bareLinks(ls) ==
  [i \in 1..Len(ls) |-> [ls[i] EXCEPT !.source = Id(rawId(@)), !.target = Id(rawId(@))]]

-----------------------------------------------------------------------------
(* The AI service *)

\* An AIModel as the providers construct it: the quota starts full.
Model(id, type, maxTokens) ==
  [id |-> id, type |-> type, remainingTokens |-> maxTokens, maxTokens |-> maxTokens]

\* The providers: name, models, the model generateGraph uses when it is given
\* none, and the token cost generateGraph hands to fetchAI (Gemini, which
\* does not go through fetchAI, has none).
GeminiProvider ==
  [name |-> "Gemini", defaultModel |-> "gemini-2.5-flash", cost |-> 0,
   models |-> <<Model("gemini-2.0-flash-thinking-exp-1219", "heavy", 50000),
                Model("gemini-2.5-flash", "standard", 150000)>>]

OpenAIProvider ==
  [name |-> "OpenAI", defaultModel |-> "gpt-4o-mini", cost |-> 1000,
   models |-> <<Model("gpt-4o", "heavy", 80000),
                Model("gpt-4o-mini", "standard", 200000)>>]

GrokProvider ==
  [name |-> "Grok", defaultModel |-> "grok-beta", cost |-> 1200,
   models |-> <<Model("grok-2-latest", "heavy", 60000),
                Model("grok-beta", "standard", 120000)>>]

ClaudeProvider ==
  [name |-> "Claude", defaultModel |-> "claude-3-5-sonnet-20241022", cost |-> 1500,
   models |-> <<Model("claude-3-5-sonnet-20241022", "heavy", 75000),
                Model("claude-3-5-haiku-20241022", "standard", 180000)>>]

DeepSeekProvider ==
  [name |-> "DeepSeek", defaultModel |-> "deepseek-chat", cost |-> 800,
   models |-> <<Model("deepseek-chat", "standard", 100000)>>]

\* AIServiceManager's constructor: the providers in registration order.
AIServiceManager ==
  <<GeminiProvider, OpenAIProvider, GrokProvider, ClaudeProvider, DeepSeekProvider>>

\* The first of a set of indices, 0 when there is none: what
\* Array.prototype.find returns among the elements that pass its test.
firstOf(hits) ==
  IF hits = {} THEN 0 ELSE CHOOSE i \in hits : \A j \in hits : i <= j

\* models.find(m => m.id === modelId): the index of the model, 0 when none.
findModel(models, modelId) ==
  firstOf({i \in 1..Len(models) : models[i].id = modelId})

\* models.find(m => m.type === type && m.remainingTokens > 0)
findModelWithQuota(models, type) ==
  firstOf({i \in 1..Len(models) :
             models[i].type = type /\ models[i].remainingTokens > 0})

\* providers.find(p => p.name === name): index of the provider, 0 when none.
findProvider(ps, name) ==
  IF \E p \in 1..Len(ps) : ps[p].name = name
  THEN CHOOSE p \in 1..Len(ps) :
         ps[p].name = name /\ \A q \in 1..(p - 1) : ps[q].name # name
  ELSE 0

\* getStats: the sums over the provider's models and the status they give.
getStats(provider) ==
  LET totalRemaining[i \in 0..Len(provider.models)] ==
        IF i = 0 THEN 0 ELSE totalRemaining[i - 1] + provider.models[i].remainingTokens
      totalMax[i \in 0..Len(provider.models)] ==
        IF i = 0 THEN 0 ELSE totalMax[i - 1] + provider.models[i].maxTokens
  IN [name |-> provider.name,
      totalRemaining |-> totalRemaining[Len(provider.models)],
      totalMax |-> totalMax[Len(provider.models)],
      status |-> IF totalRemaining[Len(provider.models)] > 0
                 THEN "ACTIVE" ELSE "EXHAUSTED"]

\* resetCycle of provider p: every model's quota is full again.
resetCycle(ps, p) ==
  [ps EXCEPT ![p].models =
     [i \in 1..Len(ps[p].models) |->
        [ps[p].models[i] EXCEPT !.remainingTokens = ps[p].models[i].maxTokens]]]

\* deductTokens without Math.max.
deductTokensUnclamped(ps, p, amount, modelId) ==
  LET i == findModel(ps[p].models, modelId)
  IN IF i = 0 THEN ps
     ELSE [ps EXCEPT ![p].models[i].remainingTokens = @ - amount]

\* deductTokens of provider p: the first model with the id loses amount,
\* never below 0; an id no model has changes nothing.
deductTokens(ps, p, amount, modelId) ==
  LET i == findModel(ps[p].models, modelId)
  IN IF i = 0 THEN ps
     ELSE [ps EXCEPT ![p].models[i].remainingTokens =
             Max(0, @ - amount)]

\* The candidates of a type without regard to quota.
candidatesOfTypeAnyQuota(ps, type) ==
  LET pick(p) == firstOf({i \in 1..Len(ps[p].models) : ps[p].models[i].type = type})
      from[p \in 0..Len(ps)] ==
        IF p = 0 THEN <<>>
        ELSE IF pick(p) = 0 THEN from[p - 1]
        ELSE Append(from[p - 1],
                    [provider |-> p, modelId |-> ps[p].models[pick(p)].id])
  IN from[Len(ps)]

\* The candidate the plan holds for provider p and a model type: its first
\* model of that type with quota left, if any.
candidatesOfType(ps, type) ==
  LET pick(p) == findModelWithQuota(ps[p].models, type)
      from[p \in 0..Len(ps)] ==
        IF p = 0 THEN <<>>
        ELSE IF pick(p) = 0 THEN from[p - 1]
        ELSE Append(from[p - 1],
                    [provider |-> p, modelId |-> ps[p].models[pick(p)].id])
  IN from[Len(ps)]

\* executeWithFallback, step 1: the execution plan.  In manual mode the
\* selected provider with the selected model, if the provider exists; in auto
\* mode the heavy candidates of all providers, then the standard ones.
executionPlan(ps, aiSettings) ==
  IF ~aiSettings.autoMode
  THEN LET selectedP == findProvider(ps, aiSettings.selectedProvider)
       IN IF selectedP # 0
          THEN <<[provider |-> selectedP, modelId |-> aiSettings.selectedModel]>>
          ELSE <<>>
  ELSE candidatesOfType(ps, "heavy") \o candidatesOfType(ps, "standard")

\* prompt.length + text.length, the charge for a response text
Lengths == {ShortLength, LongLength}

\* The outcome of a generateGraph call: whether it returned data, the
\* quotas it leaves, and the deductTokens calls it made (model, amounts in
\* order, and the quota the model had before, -1 for an id no model has).
RECURSIVE Outcome(_, _, _, _, _)
Outcome(ok, ps, p, modelId, amounts) ==
  IF amounts = <<>>
  THEN [ok |-> ok, providers |-> ps,
        charged |-> [provider |-> p, modelId |-> modelId, amounts |-> <<>>]]
  ELSE LET rest == Outcome(ok, deductTokens(ps, p, Head(amounts), modelId),
                           p, modelId, Tail(amounts))
       IN [rest EXCEPT !.charged.amounts = <<Head(amounts)>> \o @]

\* GeminiProvider.generateGraph: the possible outcomes.  It throws when the
\* model's quota is used up; otherwise the request may fail before anything
\* is deducted, and the response text is charged by length before it is
\* parsed, which may throw as well.
geminiGenerateGraph(ps, p, modelId) ==
  LET activeModelId == IF modelId # "" THEN modelId ELSE ps[p].models[2].id
      i == findModel(ps[p].models, activeModelId)
  IN IF i # 0 /\ ps[p].models[i].remainingTokens <= 0
     THEN {Outcome(FALSE, ps, p, activeModelId, <<>>)}
     ELSE {Outcome(FALSE, ps, p, activeModelId, <<>>)}
          \cup {Outcome(parsed, ps, p, activeModelId, <<length>>) :
                  parsed \in BOOLEAN, length \in Lengths}

\* fetchAI with its fallbacks: the primary request charges the provider's
\* cost once it is answered, and returns or falls through; the neural bridge
\* charges the text by length, or ends in the mock response.  It never
\* throws.
fetchAI(ps, p, modelId) ==
  {Outcome(TRUE, ps, p, modelId, primary \o bridge) :
     primary \in {<<>>, <<ps[p].cost>>},
     bridge \in {<<>>} \cup {<<length>> : length \in Lengths}}

\* provider.generateGraph(prompt, modelId) of the provider at index p.
generateGraph(ps, p, modelId) ==
  IF ps[p].name = "Gemini"
  THEN geminiGenerateGraph(ps, p, modelId)
  ELSE fetchAI(ps, p, IF modelId # "" THEN modelId ELSE ps[p].defaultModel)

\* The settings executeWithFallback reads from the store: auto mode, or a
\* selected provider with a selected model, which need not be one of its own.
AISettings ==
  {[autoMode |-> TRUE, selectedProvider |-> "Gemini",
    selectedModel |-> "gemini-2.5-flash"]}
  \cup UNION {{[autoMode |-> FALSE, selectedProvider |-> AIServiceManager[p].name,
                 selectedModel |-> m] :
                  m \in {"", "gemini-2.5-flash"}
                        \cup {AIServiceManager[p].models[i].id :
                                i \in 1..Len(AIServiceManager[p].models)}} :
              p \in 1..Len(AIServiceManager)}
  \cup {[autoMode |-> FALSE, selectedProvider |-> "", selectedModel |-> ""]}

\* No executeWithFallback call made yet.
NoRun == [pc |-> "idle", aiSettings |-> [autoMode |-> TRUE,
                                         selectedProvider |-> "Gemini",
                                         selectedModel |-> "gemini-2.5-flash"],
          quota |-> AIServiceManager, executionPlan |-> <<>>, step |-> 0,
          attempts |-> 0, log |-> <<>>, data |-> [provider |-> "", model |-> ""],
          charged |-> [provider |-> 0, modelId |-> "", amounts |-> <<>>],
          count |-> 0]

\* No saveToDb call in flight, nothing persisted.
NoDb == [nodes |-> <<>>, links |-> <<>>, saves |-> <<>>, count |-> 0]

-----------------------------------------------------------------------------
(* The store *)

\* No request in flight, no timer set.
NoPending == [requests |-> <<>>, timers |-> 0, errors |-> 0,
              lastSeen |-> [nodes |-> <<>>, links |-> <<>>]]

\* No function applied on its own.
NoProbe == [kind |-> "none"]

NoCall == [called |-> FALSE, existingNodes |-> <<>>, existingLinks |-> <<>>,
           newNodes |-> <<>>, newLinks |-> <<>>, mergedCount |-> 0,
           nodeMap |-> <<>>, nodeLog |-> <<>>, linkLog |-> <<>>]

Init ==
  /\ nodes = INITIAL_NODES
  /\ links = INITIAL_LINKS
  /\ status = "IDLE"
  /\ calls = 0
  /\ last = NoCall
  /\ pending = NoPending
  /\ providers = AIServiceManager
  /\ run = NoRun
  /\ db = NoDb
  /\ probe = NoProbe

\* handleGenerate / handleCorrelate up to the request: the trigger is
\* disabled while the status is GENERATING.
handleGenerate ==
  /\ status # "GENERATING"
  /\ calls < MaxCalls
  /\ status' = "GENERATING"
  /\ UNCHANGED <<nodes, links, calls, last>>
  /\ UNCHANGED <<pending, probe, providers, run, db>>

\* addGraphData: the state update runs the consolidation engine on the
\* current graph and stores its lists.
\* state is the state the store hands to the updater.
setState(state, newNodes, newLinks) ==
  \E result \in {consolidateGraphData(state.nodes, state.links, newNodes, newLinks)} :
    /\ nodes' = result.nodes
    /\ links' = result.links
    /\ calls' = calls + 1
    /\ last' = [called |-> TRUE,
                existingNodes |-> state.nodes, existingLinks |-> state.links,
                newNodes |-> newNodes, newLinks |-> newLinks,
                mergedCount |-> result.mergedCount, nodeMap |-> result.nodeMap,
                nodeLog |-> result.nodeLog, linkLog |-> result.linkLog]

addGraphData(newNodes, newLinks) ==
  setState([nodes |-> nodes, links |-> links], newNodes, newLinks)

\* finishLoading, first timer: the generated batch is ingested.  saveToDb,
\* started there and not awaited, reads the store and writes only the
\* database; IngestAndSave follows it there.
Ingest ==
  /\ status = "GENERATING"
  /\ ~last.called
  /\ \E newNodes \in NodeBatches, newLinks \in LinkBatches :
       addGraphData(newNodes, newLinks)
  /\ UNCHANGED status
  /\ UNCHANGED <<pending, probe, providers, run, db>>

\* The same with a response that restates the whole current graph.
ReIngest ==
  /\ status = "GENERATING"
  /\ ~last.called
  /\ addGraphData(nodes, bareLinks(links))
  /\ UNCHANGED status
  /\ UNCHANGED <<pending, probe, providers, run, db>>

\* finishLoading, second timer: the request is over.
finishLoadingReset ==
  /\ status = "GENERATING"
  /\ last.called
  /\ status' = "IDLE"
  /\ last' = NoCall
  /\ UNCHANGED <<nodes, links, calls>>
  /\ UNCHANGED <<pending, probe, providers, run, db>>

Next == handleGenerate \/ Ingest \/ ReIngest \/ finishLoadingReset

Spec == Init /\ [][Next]_vars

\* The store with the PrismGraph component mounted: it hands the store's own
\* link objects to the force simulation, which replaces the endpoints of
\* every link object by references to the entity objects.  (The coordinates
\* the simulation writes on entities are left out; the consolidation engine
\* carries them along and never reads them.)
PrismGraphRender ==
  /\ \E i \in 1..Len(links) : ~links[i].source.obj \/ ~links[i].target.obj
  /\ links' = [i \in 1..Len(links) |->
                [links[i] EXCEPT !.source = Ref(rawId(@)), !.target = Ref(rawId(@))]]
  /\ UNCHANGED <<nodes, status, calls, last>>
  /\ UNCHANGED <<pending, probe, providers, run, db>>

NextPrismGraph == Next \/ PrismGraphRender

SpecPrismGraph == Init /\ [][NextPrismGraph]_vars

-----------------------------------------------------------------------------
(* Vocabulary of the properties *)

idsOf(ns) == {ns[i].id : i \in 1..Len(ns)}

endpointPair(l) == {rawId(l.source), rawId(l.target)}

\* the entity list after the k-th incoming entity of the last call was
\* processed
listAfter(k) ==
  IF k < Len(last.nodeLog) THEN last.nodeLog[k + 1].before ELSE nodes

\* the incoming entities of the last call that were merged
Merges == {k \in 1..Len(last.nodeLog) : last.nodeLog[k].at > 0}

\* entity m of the k-th merge before and after it, and the entity merged in
mBefore(k) == last.nodeLog[k].before[last.nodeLog[k].at]

mAfter(k) == listAfter(k)[last.nodeLog[k].at]

eOf(k) == last.nodeLog[k].incoming

\* the relations of the last call's batch that were accepted, as stored
acceptedLinks ==
  LET kept == SelectSeq(last.linkLog, LAMBDA en : en.accepted)
  IN [i \in 1..Len(kept) |->
        Link(Id(kept[i].resolvedSource.v), Id(kept[i].resolvedTarget.v),
             kept[i].link.relation, kept[i].link.weight)]

-----------------------------------------------------------------------------
(* C1 *)

\* C1: no dangling edges -- in every graph the store reaches, both endpoints
\* of every relation are ids of entities of the graph.
C1_NoDanglingEdges ==
  \A i \in 1..Len(links) :
    /\ rawId(links[i].source) \in idsOf(nodes)
    /\ rawId(links[i].target) \in idsOf(nodes)

\* A call accepted one relation and dropped another whose endpoint names no
\* entity.
C1_Witness ==
  /\ last.called
  /\ \E k \in 1..Len(last.linkLog) : last.linkLog[k].accepted
  /\ \E k \in 1..Len(last.linkLog) :
       rawId(last.linkLog[k].link.target) \notin idsOf(nodes)

\* C2: no duplicate unordered edges -- no two relations of the graph connect
\* the same unordered pair of entities.
C2_NoDuplicateUnorderedEdges ==
  \A i, j \in 1..Len(links) :
    i # j => endpointPair(links[i]) # endpointPair(links[j])

\* A call dropped a relation whose pair, reversed, had been accepted earlier
\* in the same batch.
C2_Witness ==
  /\ last.called
  /\ \E k1, k2 \in 1..Len(last.linkLog) :
       /\ k1 < k2
       /\ last.linkLog[k1].accepted
       /\ ~last.linkLog[k2].accepted
       /\ Truthy(last.linkLog[k2].resolvedSource)
       /\ Truthy(last.linkLog[k2].resolvedTarget)
       /\ last.linkLog[k2].resolvedSource.v = last.linkLog[k1].resolvedTarget.v
       /\ last.linkLog[k2].resolvedTarget.v = last.linkLog[k1].resolvedSource.v

\* C3: no duplicate ids -- the entities of the graph have pairwise distinct
\* ids.
C3_NoDuplicateIds ==
  \A i, j \in 1..Len(nodes) : i # j => nodes[i].id # nodes[j].id

\* A batch named twice an id that the graph did not hold, and the id entered
\* the graph once.
C3_Witness ==
  /\ last.called
  /\ \E k1, k2 \in 1..Len(last.newNodes) :
       /\ k1 < k2
       /\ last.newNodes[k1].id = last.newNodes[k2].id
       /\ last.newNodes[k1].id \notin idsOf(last.existingNodes)
       /\ last.newNodes[k1].id \in idsOf(nodes)

\* C4: idempotence of re-ingestion -- a batch equal to the graph's own
\* entities and relations gives mergedCount = number of incoming entities and
\* an entity list of unchanged length.
C4_ReIngestionIdempotent ==
  (/\ last.called
   /\ last.newNodes = last.existingNodes
   /\ last.newLinks = bareLinks(last.existingLinks))
  => /\ last.mergedCount = Len(last.newNodes)
     /\ Len(nodes) = Len(last.existingNodes)

\* A graph that grew beyond the seed was ingested into itself.
C4_Witness ==
  /\ last.called
  /\ last.newNodes = last.existingNodes
  /\ last.newLinks = bareLinks(last.existingLinks)
  /\ Len(last.existingNodes) > Len(INITIAL_NODES)
  /\ Len(last.existingLinks) > Len(INITIAL_LINKS)

\* C5: tag/alias accumulation -- every merge leaves m with exactly the union
\* of both tag sets and of both alias sets, and no entity of the graph loses
\* a tag or an alias in a call.
C5_TagAliasAccumulation ==
  /\ \A k \in Merges :
       /\ Range(mAfter(k).tags.arr) =
            Range(mBefore(k).tags.arr) \cup Range(eOf(k).tags.arr)
       /\ Range(mAfter(k).aliases.arr) =
            Range(mBefore(k).aliases.arr) \cup Range(eOf(k).aliases.arr)
  /\ \A i \in 1..Len(last.existingNodes) :
       /\ Range(last.existingNodes[i].tags.arr) \subseteq Range(nodes[i].tags.arr)
       /\ Range(last.existingNodes[i].aliases.arr) \subseteq Range(nodes[i].aliases.arr)

\* A merge in which each side contributed a tag the other lacked, and one in
\* which each side contributed an alias the other lacked.
C5_Witness ==
  /\ \E k \in Merges :
       /\ Range(mBefore(k).tags.arr) \ Range(eOf(k).tags.arr) # {}
       /\ Range(eOf(k).tags.arr) \ Range(mBefore(k).tags.arr) # {}
  /\ \E k \in Merges :
       /\ Range(mBefore(k).aliases.arr) \ Range(eOf(k).aliases.arr) # {}
       /\ Range(eOf(k).aliases.arr) \ Range(mBefore(k).aliases.arr) # {}

\* C6 as stated: after a merge the significance of m is at least its value
\* before, equals the larger of the two scores, and is at most 10.
C6_AsStated ==
  \A k \in Merges :
    /\ mAfter(k).metrics.significance >= mBefore(k).metrics.significance
    /\ mAfter(k).metrics.significance =
         Max(mBefore(k).metrics.significance, eOf(k).metrics.significance)
    /\ mAfter(k).metrics.significance <= MaxSignificance

\* C6, amended: after a merge the significance of m is at most 10; it is at
\* least its value before whenever that value was at most 10, and it equals
\* the larger of the two scores whenever both are at most 10.
C6_SignificanceOnMerge ==
  \A k \in Merges :
    /\ mAfter(k).metrics.significance <= MaxSignificance
    /\ mBefore(k).metrics.significance <= MaxSignificance
         => mAfter(k).metrics.significance >= mBefore(k).metrics.significance
    /\ (/\ mBefore(k).metrics.significance <= MaxSignificance
        /\ eOf(k).metrics.significance <= MaxSignificance)
         => mAfter(k).metrics.significance =
              Max(mBefore(k).metrics.significance, eOf(k).metrics.significance)

\* A merge raised the significance of m within the scale, and a merge met an
\* entity scored above the scale.
C6_Witness ==
  /\ \E k \in Merges :
       /\ eOf(k).metrics.significance <= MaxSignificance
       /\ mBefore(k).metrics.significance < eOf(k).metrics.significance
       /\ mAfter(k).metrics.significance = eOf(k).metrics.significance
  /\ \E k \in Merges :
       mBefore(k).metrics.significance > MaxSignificance

\* C7: merge frame -- a merge changes nothing of m but its tags, aliases and
\* significance, and changes no other entity of the list.
C7_MergeFrame ==
  \A k \in Merges :
    /\ Len(listAfter(k)) = Len(last.nodeLog[k].before)
    /\ \A j \in 1..Len(listAfter(k)) :
         j # last.nodeLog[k].at => listAfter(k)[j] = last.nodeLog[k].before[j]
    /\ mAfter(k).id = mBefore(k).id
    /\ mAfter(k).label = mBefore(k).label
    /\ mAfter(k).type = mBefore(k).type
    /\ mAfter(k).summary = mBefore(k).summary
    /\ mAfter(k).groupLabel = mBefore(k).groupLabel
    /\ mAfter(k).pos = mBefore(k).pos

\* An entity was merged into one that differs from it in id, label, type,
\* summary, category and position, and changed its tags, aliases and
\* significance.
C7_Witness ==
  \E k \in Merges :
    /\ eOf(k).id # mBefore(k).id
    /\ eOf(k).label # mBefore(k).label
    /\ eOf(k).type # mBefore(k).type
    /\ eOf(k).summary # mBefore(k).summary
    /\ eOf(k).groupLabel # mBefore(k).groupLabel
    /\ mBefore(k).pos.some
    /\ eOf(k).pos # mBefore(k).pos
    /\ mAfter(k).tags # mBefore(k).tags
    /\ mAfter(k).aliases # mBefore(k).aliases
    /\ mAfter(k).metrics # mBefore(k).metrics
    /\ Len(listAfter(k)) > 1

\* C8: existing relations are preserved -- after a call the relation list is
\* the list before the call, unchanged, followed by the accepted incoming
\* relations in incoming order.
C8_ExistingRelationsPreserved ==
  last.called =>
    /\ IsPrefix(last.existingLinks, links)
    /\ links = last.existingLinks \o acceptedLinks

\* A call on a graph that had grown beyond the seed relation accepted one
\* relation and dropped another.
C8_Witness ==
  /\ last.called
  /\ Len(last.existingLinks) > Len(INITIAL_LINKS)
  /\ Len(links) > Len(last.existingLinks)
  /\ \E k \in 1..Len(last.linkLog) : ~last.linkLog[k].accepted

\* C9 as stated: an incoming relation whose endpoint does not resolve names,
\* with that endpoint, no entity of the resulting graph; a relation between
\* two distinct existing entities that are not repeated in the batch and have
\* no relation between them is accepted.
C9_ResolutionCoversExisting ==
  \A k \in 1..Len(last.linkLog) :
    LET en == last.linkLog[k]
        src == rawId(en.link.source)
        tgt == rawId(en.link.target)
    IN /\ ~Truthy(en.resolvedSource) => src \notin idsOf(nodes)
       /\ ~Truthy(en.resolvedTarget) => tgt \notin idsOf(nodes)
       /\ (/\ src \in idsOf(last.existingNodes) \ idsOf(last.newNodes)
           /\ tgt \in idsOf(last.existingNodes) \ idsOf(last.newNodes)
           /\ src # tgt
           /\ \A i \in 1..Len(last.existingLinks) :
                endpointPair(last.existingLinks[i]) # {src, tgt}
           /\ \A k1 \in 1..(k - 1) :
                last.linkLog[k1].accepted =>
                  {last.linkLog[k1].resolvedSource.v,
                   last.linkLog[k1].resolvedTarget.v} # {src, tgt})
            => en.accepted

\* C10: no self-loops are introduced -- no accepted relation has equal
\* resolved source and target, so no relation appended by a call is a loop.
C10_NoSelfLoopsIntroduced ==
  /\ \A k \in 1..Len(last.linkLog) :
       last.linkLog[k].accepted =>
         last.linkLog[k].resolvedSource.v # last.linkLog[k].resolvedTarget.v
  /\ \A j \in 1..Len(links) :
       j > Len(last.existingLinks) => rawId(links[j].source) # rawId(links[j].target)

\* A relation between two distinct incoming ids that resolved to the same
\* entity was dropped.
C10_Witness ==
  \E k \in 1..Len(last.linkLog) :
    /\ rawId(last.linkLog[k].link.source) # rawId(last.linkLog[k].link.target)
    /\ Truthy(last.linkLog[k].resolvedSource)
    /\ last.linkLog[k].resolvedSource = last.linkLog[k].resolvedTarget
    /\ ~last.linkLog[k].accepted

-----------------------------------------------------------------------------
(* Several generation requests in flight *)

\* Responses of the requests.
RequestBatches ==
  { [nodes |-> <<NewGreys, NewFbi>>,
     links |-> << Link(Id(id_greys), Id(id_fbi), "HUNTED_BY", 4) >>],
    [nodes |-> <<NewLines, NewFbi>>,
     links |-> << Link(Id(id_lines), Id(id_fbi), "WATCHED_BY", 8) >>],
    [nodes |-> <<NewNazca, NewG>>, links |-> <<>>],
    [nodes |-> <<NewG>>, links |-> <<>>] }

\* A trigger starts a request; the triggers are disabled only while the
\* status is GENERATING.  The request keeps the graph its component saw.
requestStart ==
  /\ status # "GENERATING"
  /\ Len(pending.requests) < MaxPending
  /\ calls + pending.errors + Len(pending.requests) < MaxCalls + MaxErrors
  /\ status' = "GENERATING"
  /\ pending' = [pending EXCEPT
                   !.requests = Append(@, [seenNodes |-> nodes, seenLinks |-> links])]
  /\ UNCHANGED <<nodes, links, calls, last, probe, providers, run, db>>

\* Variant of updaterState: the updater works on the graph the request saw
\* when it was made.
updaterStateOfRequest(req) == [nodes |-> req.seenNodes, links |-> req.seenLinks]

\* set((state) => ...): the updater receives the store's state of the moment
\* it runs, whatever request it runs for.
updaterState(req) == [nodes |-> nodes, links |-> links]

withoutRequest(i) ==
  SubSeq(pending.requests, 1, i - 1)
    \o SubSeq(pending.requests, i + 1, Len(pending.requests))

\* The response of some pending request has arrived and the first timer of
\* finishLoading runs: addGraphData, then the second timer is set.
finishLoading ==
  /\ calls < MaxCalls
  /\ \E i \in 1..Len(pending.requests), data \in RequestBatches :
       /\ setState(updaterState(pending.requests[i]), data.nodes, data.links)
       /\ pending' = [pending EXCEPT
                        !.requests = withoutRequest(i),
                        !.timers = @ + 1,
                        !.lastSeen = [nodes |-> pending.requests[i].seenNodes,
                                      links |-> pending.requests[i].seenLinks]]
  /\ UNCHANGED <<status, probe, providers, run, db>>

\* Some pending request fails: the status becomes ERROR and a timer is set.
handleError ==
  /\ pending.errors < MaxErrors
  /\ \E i \in 1..Len(pending.requests) :
       pending' = [pending EXCEPT !.requests = withoutRequest(i),
                                  !.timers = @ + 1,
                                  !.errors = @ + 1]
  /\ status' = "ERROR"
  /\ UNCHANGED <<nodes, links, calls, last, probe, providers, run, db>>

\* A timer of finishLoading or handleError fires: setStatus(IDLE).
setStatusIdle ==
  /\ pending.timers > 0
  /\ status' = "IDLE"
  /\ pending' = [pending EXCEPT !.timers = @ - 1]
  /\ UNCHANGED <<nodes, links, calls, last, probe, providers, run, db>>

NextPending == requestStart \/ finishLoading \/ handleError \/ setStatusIdle

SpecPending == Init /\ [][NextPending]_vars

-----------------------------------------------------------------------------
(* Batches whose ids hold the signature separator or are empty *)

\* cleanId keeps '|' and turns an id of blanks into ''.
id_a_b == <<"a","|","b">>

id_c == <<"c">>

id_a == <<"a">>

id_b_c == <<"b","|","c">>

id_empty == <<>>

Plain(id, label) == Node(id, label, "Concept", "plain", "Concept", 5, Arr(<<>>), Undef)

\* Five entities that match neither each other nor a seed entity.
OddNodePool ==
  { Plain(id_a_b, <<"O","r","i","o","n">>),
    Plain(id_c, <<"V","e","g","a">>),
    Plain(id_a, <<"S","i","r","i","u","s">>),
    Plain(id_b_c, <<"P","l","e","i","a","d","e","s">>),
    Plain(id_empty, <<"Z","e","t","a"," ","R","e","t","i","c","u","l","i">>) }

OddLinkPool ==
  { Link(Id(id_a_b), Id(id_c), "NEAR", 5),
    Link(Id(id_a), Id(id_b_c), "FAR_FROM", 6),
    Link(Id(id_empty), Id(id_c), "ORIGIN_OF", 7),
    Link(Id(id_a), Id(id_c), "VISIBLE_FROM", 4),
    Link(Ref(id_c), Ref(id_a), "POINTS_TO", 3) }

OddNodeBatches == SeqsUpTo(OddNodePool, MaxBatch)

OddLinkBatches == SeqsUpTo(OddLinkPool, MaxRels)

\* finishLoading, first timer, with such a batch.
IngestOdd ==
  /\ status = "GENERATING"
  /\ ~last.called
  /\ \E newNodes \in OddNodeBatches, newLinks \in OddLinkBatches :
       addGraphData(newNodes, newLinks)
  /\ UNCHANGED status
  /\ UNCHANGED <<pending, probe, providers, run, db>>

NextOddIds == handleGenerate \/ IngestOdd \/ finishLoadingReset

SpecOddIds == Init /\ [][NextOddIds]_vars

-----------------------------------------------------------------------------
(* Two entities ingested in both orders *)

\* addGraphData(first batch) followed by addGraphData(second batch), from
\* the seed graph.
ingestTwice(newNodes1, newNodes2) ==
  LET r1 == consolidateGraphData(INITIAL_NODES, INITIAL_LINKS, newNodes1, <<>>)
  IN consolidateGraphData(r1.nodes, r1.links, newNodes2, <<>>)

InitOrder ==
  /\ nodes = INITIAL_NODES
  /\ links = INITIAL_LINKS
  /\ status = "IDLE"
  /\ calls = 0
  /\ last = NoCall
  /\ pending = NoPending
  /\ providers = AIServiceManager
  /\ run = NoRun
  /\ db = NoDb
  /\ probe \in {[kind |-> "order", applied |-> FALSE, x |-> x, y |-> y,
                 ab |-> <<>>, ba |-> <<>>, xy |-> <<>>, yx |-> <<>>] :
                 x \in NodePool \cup OddNodePool, y \in NodePool \cup OddNodePool}

\* The entity lists of the four ingestions: [x] then [y], [y] then [x],
\* [x, y] and [y, x].
ApplyOrders ==
  /\ probe.kind = "order"
  /\ ~probe.applied
  /\ probe' = [probe EXCEPT
                 !.applied = TRUE,
                 !.ab = ingestTwice(<<probe.x>>, <<probe.y>>).nodes,
                 !.ba = ingestTwice(<<probe.y>>, <<probe.x>>).nodes,
                 !.xy = consolidateGraphData(INITIAL_NODES, INITIAL_LINKS,
                                             <<probe.x, probe.y>>, <<>>).nodes,
                 !.yx = consolidateGraphData(INITIAL_NODES, INITIAL_LINKS,
                                             <<probe.y, probe.x>>, <<>>).nodes]
  /\ UNCHANGED <<nodes, links, status, calls, last, pending, providers, run, db>>

NextOrder == ApplyOrders

SpecOrder == InitOrder /\ [][NextOrder]_vars

-----------------------------------------------------------------------------
(* The similarity scorer applied on its own *)

\* Characters of the probed strings: two letters, one of them in both cases,
\* and a character the normalization removes.
Alphabet == {"a", "b", "A", "-"}

Strings == SeqsUpTo(Alphabet, MaxStrLen)

InitSimilarity ==
  /\ nodes = INITIAL_NODES
  /\ links = INITIAL_LINKS
  /\ status = "IDLE"
  /\ calls = 0
  /\ last = NoCall
  /\ pending = NoPending
  /\ providers = AIServiceManager
  /\ run = NoRun
  /\ db = NoDb
  /\ probe \in {[kind |-> "similarity", applied |-> FALSE, str1 |-> a, str2 |-> b,
                  score |-> [n |-> 0, d |-> 1], reverse |-> [n |-> 0, d |-> 1]] :
                 a \in Strings, b \in Strings}

\* calculateStringSimilarity(str1, str2) and, for comparison,
\* calculateStringSimilarity(str2, str1).
ApplySimilarity ==
  /\ probe.kind = "similarity"
  /\ ~probe.applied
  /\ probe' = [probe EXCEPT !.applied = TRUE,
                            !.score = calculateStringSimilarity(probe.str1, probe.str2),
                            !.reverse = calculateStringSimilarity(probe.str2, probe.str1)]
  /\ UNCHANGED <<nodes, links, status, calls, last, pending, providers, run, db>>

NextSimilarity == ApplySimilarity

SpecSimilarity == InitSimilarity /\ [][NextSimilarity]_vars

\* two exact ratios denote the same number
SameScore(x, y) == x.n * y.d = y.n * x.d

Scored == probe.kind = "similarity" /\ probe.applied

-----------------------------------------------------------------------------
(* The identity resolver applied on its own *)

Probe(id, label, aliases) ==
  Node(id, label, "Concept", "probe", "Concept", 5, Undef, aliases)

\* Labels of 21, 19 and 18 distinct letters score 18/20 and 17/20 = 0.85
\* against the longest; aliases of 12, 11 and 10 letters score 10/11 and
\* 9/10 = 0.90 against the next longer one.
ProbeNodes ==
  { Probe(<<"p">>, <<"a","b","c","d","e","f","g","h","i","j","k","l","m","n","o","p","q","r","s","t","u">>, Undef),
    Probe(<<"q">>, <<"a","b","c","d","e","f","g","h","i","j","k","l","m","n","o","p","q","r">>, Undef),
    Probe(<<"r">>, <<"a","b","c","d","e","f","g","h","i","j","k","l","m","n","o","p","q","r","s">>, Undef),
    Probe(<<"s">>, <<"x">>, Arr(<< <<"a","b","c","d","e","f","g","h","i","j","k">> >>)),
    Probe(<<"t">>, <<"y">>, Arr(<< <<"a","b","c","d","e","f","g","h","i","j">> >>)),
    Probe(<<"u">>, <<"z">>, Arr(<< <<"w">>, <<"a","b","c","d","e","f","g","h","i","j","k","l">> >>)),
    Probe(<<"v">>, <<"w">>, Arr(<<>>)),
    Probe(<<"p">>, <<"k">>, Undef),
    Probe(<<"m">>, <<"X">>, Undef),
    Probe(<<"n">>, <<"v">>, Arr(<< <<"A","B","C","D","E","F","G","H","I","J">> >>)) }

InitIdentity ==
  /\ nodes = INITIAL_NODES
  /\ links = INITIAL_LINKS
  /\ status = "IDLE"
  /\ calls = 0
  /\ last = NoCall
  /\ pending = NoPending
  /\ providers = AIServiceManager
  /\ run = NoRun
  /\ db = NoDb
  /\ probe \in {[kind |-> "identity", applied |-> FALSE, nodeA |-> a, nodeB |-> b,
                  result |-> FALSE, reverse |-> FALSE] :
                 a \in ProbeNodes, b \in ProbeNodes}

\* isSameEntity(nodeA, nodeB) and, for comparison, isSameEntity(nodeB, nodeA).
ApplyIdentity ==
  /\ probe.kind = "identity"
  /\ ~probe.applied
  /\ probe' = [probe EXCEPT !.applied = TRUE,
                            !.result = isSameEntity(probe.nodeA, probe.nodeB),
                            !.reverse = isSameEntity(probe.nodeB, probe.nodeA)]
  /\ UNCHANGED <<nodes, links, status, calls, last, pending, providers, run, db>>

NextIdentity == ApplyIdentity

SpecIdentity == InitIdentity /\ [][NextIdentity]_vars

Identified == probe.kind = "identity" /\ probe.applied

-----------------------------------------------------------------------------
(* C11 *)

\* C11: undirected duplicate rejection, first edge wins -- an incoming
\* relation whose resolved endpoint pair, in either orientation, is the pair
\* of an existing relation (stored with bare ids or with entity references)
\* or of a relation accepted earlier in the same batch is dropped.
C11_UndirectedDuplicateRejected ==
  last.called =>
    \A k \in 1..Len(last.linkLog) :
      LET en == last.linkLog[k]
          pair == {en.resolvedSource.v, en.resolvedTarget.v}
      IN (/\ Truthy(en.resolvedSource)
          /\ Truthy(en.resolvedTarget)
          /\ \/ \E i \in 1..Len(last.existingLinks) :
                   {last.existingLinks[i].source.id,
                    last.existingLinks[i].target.id} = pair
             \/ \E j \in 1..(k - 1) :
                   /\ last.linkLog[j].accepted
                   /\ {last.linkLog[j].resolvedSource.v,
                       last.linkLog[j].resolvedTarget.v} = pair)
         => ~en.accepted

\* A call found an existing relation stored with entity references and
\* dropped an incoming relation that, after resolution, connects the same
\* pair in the other direction under another predicate label.
C11_Witness ==
  /\ last.called
  /\ \E i \in 1..Len(last.existingLinks) : \E k \in 1..Len(last.linkLog) :
       LET ex == last.existingLinks[i]
           en == last.linkLog[k]
       IN /\ ex.source.obj /\ ex.target.obj
          /\ Truthy(en.resolvedSource) /\ Truthy(en.resolvedTarget)
          /\ en.resolvedSource.v = ex.target.id
          /\ en.resolvedTarget.v = ex.source.id
          /\ en.link.relation # ex.relation
          /\ ~en.accepted
          /\ links = last.existingLinks

-----------------------------------------------------------------------------
(* C12 *)

\* the incoming relations of the last call that were accepted, as they came
keptIncoming ==
  LET kept == SelectSeq(last.linkLog, LAMBDA en : en.accepted)
  IN [i \in 1..Len(kept) |-> kept[i].link]

\* C12: no failure state -- every call completes: every incoming entity and
\* every incoming relation is processed, the result is stored, and a dropped
\* relation (unknown endpoint, self-loop, duplicate) is only left out: the
\* result is the one the call gives for the batch without the dropped
\* relations.
C12_NoFailure ==
  last.called =>
    /\ Len(last.nodeLog) = Len(last.newNodes)
    /\ Len(last.linkLog) = Len(last.newLinks)
    /\ \A k \in 1..Len(last.linkLog) : last.linkLog[k].link = last.newLinks[k]
    /\ links = last.existingLinks \o acceptedLinks
    /\ \E result \in {consolidateGraphData(last.existingNodes, last.existingLinks,
                                            last.newNodes, keptIncoming)} :
         /\ result.nodes = nodes
         /\ result.links = links
         /\ result.mergedCount = last.mergedCount

\* A call dropped the first relation of its batch, whose endpoint names no
\* entity, and accepted the second.
C12_Witness ==
  /\ last.called
  /\ Len(last.linkLog) = 2
  /\ ~last.linkLog[1].accepted
  /\ ~last.linkLog[1].resolvedTarget.some
  /\ last.linkLog[2].accepted
  /\ Len(links) = Len(last.existingLinks) + 1

-----------------------------------------------------------------------------
(* C13 *)

\* C13: similarity symmetry -- for all strings a and b of the alphabet,
\* similarity(a, b) = similarity(b, a).
C13_SimilaritySymmetric ==
  Scored => SameScore(probe.score, probe.reverse)

\* Two strings whose bigram sets differ in size and overlap in part were
\* scored, strictly between 0 and 1.
C13_Witness ==
  /\ Scored
  /\ Cardinality(bigrams(normalize(probe.str1)))
       # Cardinality(bigrams(normalize(probe.str2)))
  /\ probe.score.n > 0
  /\ probe.score.n < probe.score.d

-----------------------------------------------------------------------------
(* C14 *)

\* C14: similarity bounds and identity -- every score, as the exact ratio
\* n/d, lies in [0, 1], and similarity(x, x) is exactly 1 for every string x,
\* the empty string and strings shorter than two characters included.
C14_SimilarityBoundsIdentity ==
  Scored =>
    /\ probe.score.d > 0
    /\ 0 <= probe.score.n
    /\ probe.score.n <= probe.score.d
    /\ probe.str1 = probe.str2 => probe.score.n = probe.score.d

\* A string of one character, which has no bigram, was scored against
\* itself.
C14_Witness ==
  /\ Scored
  /\ probe.str1 = probe.str2
  /\ Len(probe.str1) = 1
  /\ normalize(probe.str1) = probe.str1
  /\ probe.score.n = probe.score.d

-----------------------------------------------------------------------------
(* C15 *)

\* C15: empty-normalization rule -- when both inputs normalize to the empty
\* string the score is 1.0 only if the original strings are equal and 0.0
\* when they are not; when exactly one input normalizes to the empty string
\* the score is 0.0.
C15_EmptyNormalizationRule ==
  Scored =>
    LET e1 == normalize(probe.str1) = <<>>
        e2 == normalize(probe.str2) = <<>>
    IN /\ (e1 /\ e2 /\ probe.str1 # probe.str2) => probe.score.n = 0
       /\ (e1 /\ e2 /\ probe.score.n = probe.score.d) => probe.str1 = probe.str2
       /\ (e1 # e2) => probe.score.n = 0

-----------------------------------------------------------------------------
(* C16 *)

\* C16: identity rules -- sameEntity(a, b) is true exactly when the ids are
\* equal, or the labels are equal ignoring case, or the label similarity is
\* strictly greater than 0.85, or both have aliases and some alias of a and
\* some alias of b are equal ignoring case or score strictly more than 0.90;
\* a score of exactly 0.85 or 0.90 does not match; and sameEntity(a, b) =
\* sameEntity(b, a).
C16_IdentityRules ==
  Identified =>
    LET a == probe.nodeA
        b == probe.nodeB
        labelScore == calculateStringSimilarity(a.label, b.label)
        aliasPairs == IF a.aliases.some /\ b.aliases.some
                      THEN Range(a.aliases.arr) \X Range(b.aliases.arr)
                      ELSE {}
    IN /\ probe.result <=>
            \/ a.id = b.id
            \/ toLowerCase(a.label) = toLowerCase(b.label)
            \/ labelScore.n * 100 > 85 * labelScore.d
            \/ \E pr \in aliasPairs :
                  \/ toLowerCase(pr[1]) = toLowerCase(pr[2])
                  \/ calculateStringSimilarity(pr[1], pr[2]).n * 100
                       > 90 * calculateStringSimilarity(pr[1], pr[2]).d
       /\ probe.result = probe.reverse

\* Two entities with different ids whose labels score exactly 17/20 = 0.85
\* were told apart.
C16_Witness ==
  /\ Identified
  /\ ~probe.result
  /\ probe.nodeA.id # probe.nodeB.id
  /\ calculateStringSimilarity(probe.nodeA.label, probe.nodeB.label) = [n |-> 17, d |-> 20]

-----------------------------------------------------------------------------
(* C17 *)

\* C17: an id addresses only the entity that bears it -- an incoming entity
\* whose id is the id of an entity already in the result list is resolved to
\* that entity, and every accepted relation is attached, at each end, to the
\* entity whose id the relation names when the result list holds that id.
C17_IdAddressesBearer ==
  last.called =>
    /\ \A k \in 1..Len(last.nodeLog) :
         eOf(k).id \in idsOf(last.nodeLog[k].before)
           => /\ last.nodeLog[k].at > 0
              /\ mBefore(k).id = eOf(k).id
    /\ \A k \in 1..Len(last.linkLog) :
         LET en == last.linkLog[k]
         IN en.accepted =>
              /\ en.link.source.id \in idsOf(nodes) => en.resolvedSource.v = en.link.source.id
              /\ en.link.target.id \in idsOf(nodes) => en.resolvedTarget.v = en.link.target.id

-----------------------------------------------------------------------------
(* C18 *)

idSeq(ns) == [i \in 1..Len(ns) |-> ns[i].id]

\* C18: nothing is deleted -- in every step of the store, every entity id of
\* the graph before is an id of the graph after, the entity list before is a
\* prefix of the entity list after (the same entities at the same positions,
\* a merge changing only what C5-C7 allow), and the relation list before is a
\* prefix of the relation list after.
C18_NothingDeleted ==
  [][/\ idsOf(nodes) \subseteq idsOf(nodes')
     /\ IsPrefix(idSeq(nodes), idSeq(nodes'))
     /\ IsPrefix(links, links')]_vars

\* The second ingestion merged into an entity that the first one had added
\* and added a relation to the relations the first one had extended.
C18_Witness ==
  /\ last.called
  /\ calls = 2
  /\ Len(last.existingLinks) > Len(INITIAL_LINKS)
  /\ \E k \in Merges : last.nodeLog[k].at > Len(INITIAL_NODES)
  /\ Len(links) > Len(last.existingLinks)

-----------------------------------------------------------------------------
(* C20 *)

\* the positions of the list before the k-th incoming entity whose entity is
\* the same entity as the incoming one
matchesOf(k) ==
  {i \in 1..Len(last.nodeLog[k].before) : isSameEntity(last.nodeLog[k].before[i], eOf(k))}

\* C20: first match wins in list order -- each incoming entity, in input
\* order, is resolved to the first entity of the current result list
\* (existing entities, then entities appended earlier in the batch) that is
\* the same entity, and is appended at the end, mapped to its own id,
\* exactly when there is none.
C20_FirstMatchWins ==
  last.called =>
    /\ Len(last.nodeMap) = Len(last.newNodes)
    /\ \A k \in 1..Len(last.nodeLog) :
         /\ eOf(k) = last.newNodes[k]
         /\ last.nodeMap[k].key = eOf(k).id
         /\ IF matchesOf(k) = {}
            THEN /\ listAfter(k) = Append(last.nodeLog[k].before, eOf(k))
                 /\ last.nodeMap[k].value = eOf(k).id
            ELSE /\ Len(listAfter(k)) = Len(last.nodeLog[k].before)
                 /\ last.nodeLog[k].at \in matchesOf(k)
                 /\ \A i \in matchesOf(k) : last.nodeLog[k].at <= i
                 /\ last.nodeMap[k].value = mBefore(k).id

\* An incoming entity was the same entity as two entities of the list and
\* was resolved to the earlier one, and an entity without a match was
\* appended in the same call.
C20_Witness ==
  /\ last.called
  /\ \E k \in 1..Len(last.nodeLog) :
       /\ Cardinality(matchesOf(k)) >= 2
       /\ \A i \in matchesOf(k) : last.nodeLog[k].at <= i
  /\ \E k \in 1..Len(last.nodeLog) :
       /\ matchesOf(k) = {}
       /\ nodes[Len(nodes)] = eOf(k)

-----------------------------------------------------------------------------
(* C19 *)

\* C19: ingestion events are serialized -- with several requests pending and
\* completing in any order, every addGraphData consolidates the graph the
\* store holds at that moment and stores the result in the same step, so
\* every consolidation works on the result of the one before it, and nothing
\* an earlier ingestion stored is lost.
C19_IngestionSerialized ==
  [][calls' # calls =>
       /\ last'.existingNodes = nodes
       /\ last'.existingLinks = links
       /\ \E result \in {consolidateGraphData(nodes, links,
                                               last'.newNodes, last'.newLinks)} :
            /\ nodes' = result.nodes
            /\ links' = result.links
       /\ idsOf(nodes) \subseteq idsOf(nodes')
       /\ IsPrefix(links, links')]_vars

\* Two requests were pending together: the one ingested last was made when
\* the graph did not yet hold what the other's ingestion added; it was
\* consolidated with the graph that ingestion left, kept it and added to it.
C19_Witness ==
  /\ last.called
  /\ calls = 2
  /\ pending.lastSeen.nodes = INITIAL_NODES
  /\ Len(last.existingNodes) > Len(INITIAL_NODES)
  /\ Len(last.existingLinks) > Len(INITIAL_LINKS)
  /\ idsOf(last.existingNodes) \subseteq idsOf(nodes)
  /\ Len(links) > Len(last.existingLinks)

-----------------------------------------------------------------------------
(* C21 *)

\* C21: entity count accounting -- for every call the output entity count is
\* the existing count plus the incoming count minus mergedCount, and
\* 0 <= mergedCount <= incoming count.
C21_CountAccounting ==
  last.called =>
    /\ Len(nodes) = Len(last.existingNodes) + Len(last.newNodes) - last.mergedCount
    /\ 0 <= last.mergedCount
    /\ last.mergedCount <= Len(last.newNodes)

\* Two incoming entities that match each other and no existing entity gave
\* mergedCount 1 and one added entity.
C21_Witness ==
  /\ last.called
  /\ Len(last.newNodes) = 2
  /\ \A i \in 1..Len(last.existingNodes) :
       /\ ~isSameEntity(last.existingNodes[i], last.newNodes[1])
       /\ ~isSameEntity(last.existingNodes[i], last.newNodes[2])
  /\ isSameEntity(last.newNodes[1], last.newNodes[2])
  /\ last.mergedCount = 1
  /\ Len(nodes) = Len(last.existingNodes) + 1

-----------------------------------------------------------------------------
(* C22 *)

\* C22: acceptance and rewiring, for all id strings -- an incoming relation
\* whose endpoints both resolve, to two different canonical ids with no
\* relation on that unordered pair among the existing relations or those
\* accepted earlier in the batch, is accepted, and every accepted relation
\* is stored with the resolved ids as source and target and the incoming
\* predicate and weight.
C22_AcceptanceAndRewiring ==
  last.called =>
    /\ \A k \in 1..Len(last.linkLog) :
         LET en == last.linkLog[k]
             pair == {en.resolvedSource.v, en.resolvedTarget.v}
         IN (/\ en.resolvedSource.some
             /\ en.resolvedTarget.some
             /\ en.resolvedSource.v # en.resolvedTarget.v
             /\ \A i \in 1..Len(last.existingLinks) :
                  {last.existingLinks[i].source.id,
                   last.existingLinks[i].target.id} # pair
             /\ \A j \in 1..(k - 1) :
                  last.linkLog[j].accepted =>
                    {last.linkLog[j].resolvedSource.v,
                     last.linkLog[j].resolvedTarget.v} # pair)
            => en.accepted
    /\ links = last.existingLinks \o acceptedLinks

-----------------------------------------------------------------------------
(* C23 *)

\* the two probed entities are the same entity under different ids, and
\* neither is the same entity as a seed entity
MatchOnlyEachOther ==
  /\ probe.x.id # probe.y.id
  /\ isSameEntity(probe.x, probe.y)
  /\ \A i \in 1..Len(INITIAL_NODES) :
       /\ ~isSameEntity(INITIAL_NODES[i], probe.x)
       /\ ~isSameEntity(INITIAL_NODES[i], probe.y)

\* C23: consolidation is order-dependent -- for two batches holding entities
\* that match each other and nothing else, ingesting one then the other
\* leaves another set of entity ids than the opposite order, and so does
\* swapping the two entities inside one batch: the one that comes first
\* survives.
C23_OrderDependent ==
  (probe.kind = "order" /\ probe.applied /\ MatchOnlyEachOther) =>
    /\ idsOf(probe.ab) # idsOf(probe.ba)
    /\ idsOf(probe.xy) # idsOf(probe.yx)
    /\ probe.x.id \in idsOf(probe.ab) /\ probe.y.id \notin idsOf(probe.ab)
    /\ probe.y.id \in idsOf(probe.ba) /\ probe.x.id \notin idsOf(probe.ba)

\* Two such entities were ingested in all four ways and the results differ.
C23_Witness ==
  /\ probe.kind = "order"
  /\ probe.applied
  /\ MatchOnlyEachOther
  /\ probe.ab # probe.ba
  /\ probe.xy # probe.yx
  /\ Len(probe.ab) = Len(INITIAL_NODES) + 1

-----------------------------------------------------------------------------
(* The AI service manager at work *)

\* executeWithFallback up to the loop: the plan is built from the settings
\* and the quotas as they are; an empty plan raises at once.
executeWithFallback ==
  /\ run.pc # "running"
  /\ run.count < MaxRuns
  /\ \E aiSettings \in AISettings :
       \E plan \in {executionPlan(providers, aiSettings)} :
         run' = [pc |-> IF Len(plan) = 0 THEN "raised" ELSE "running",
                 aiSettings |-> aiSettings, quota |-> providers,
                 executionPlan |-> plan, step |-> 1, attempts |-> 0,
                 log |-> <<>>, data |-> [provider |-> "", model |-> ""],
                 charged |-> [provider |-> 0, modelId |-> "", amounts |-> <<>>],
                 count |-> run.count + 1]
  /\ UNCHANGED <<nodes, links, status, calls, last, pending, probe, providers, db>>

\* The loop without its return: a success is recorded and the loop goes on.
afterAttemptNoReturn(r, ps, ok) ==
  LET step == r.executionPlan[r.step]
  IN [r EXCEPT
        !.pc = IF r.step = Len(r.executionPlan)
               THEN (IF ok THEN "returned" ELSE "raised") ELSE "running",
        !.log = Append(@, [step |-> r.step, ok |-> ok]),
        !.data = IF ok THEN [provider |-> ps[step.provider].name,
                             model |-> step.modelId]
                 ELSE @,
        !.attempts = IF ok THEN @ ELSE @ + 1,
        !.step = @ + 1]

\* The call's state after the attempt of the candidate at r.step: on success
\* the call returns the data with the candidate's provenance; on failure
\* the attempt is counted and the loop goes on, raising after the last
\* candidate.  ps are the providers as the attempt found them.
afterAttempt(r, ps, ok) ==
  LET step == r.executionPlan[r.step]
  IN IF ok
     THEN [r EXCEPT
             !.pc = "returned",
             !.log = Append(@, [step |-> r.step, ok |-> TRUE]),
             !.data = [provider |-> ps[step.provider].name,
                       model |-> IF step.modelId # "" THEN step.modelId
                                 ELSE ps[step.provider].defaultModel]]
     ELSE [r EXCEPT
             !.pc = IF r.step = Len(r.executionPlan) THEN "raised" ELSE "running",
             !.log = Append(@, [step |-> r.step, ok |-> FALSE]),
             !.attempts = @ + 1,
             !.step = @ + 1]

\* One turn of the loop over the plan: the status shows a switch once an
\* attempt has failed, then the candidate's generateGraph runs, making its
\* deductTokens calls.
executeStep ==
  /\ run.pc = "running"
  /\ LET step == run.executionPlan[run.step]
     IN \E outcome \in generateGraph(providers, step.provider, step.modelId) :
          /\ providers' = outcome.providers
          /\ status' = IF run.attempts > 0 THEN "SWITCHING_PROVIDER" ELSE status
          /\ run' = [afterAttempt(run, providers, outcome.ok) EXCEPT
                       !.charged = outcome.charged]
  /\ UNCHANGED <<nodes, links, calls, last, pending, probe, db>>

\* resetCycle of one provider, between calls.
resetCycleOf ==
  /\ run.pc # "running"
  /\ \E p \in 1..Len(providers) :
       /\ getStats(providers[p]).totalRemaining < getStats(providers[p]).totalMax
       /\ providers' = resetCycle(providers, p)
  /\ UNCHANGED <<nodes, links, status, calls, last, pending, probe, run, db>>

NextAI == executeWithFallback \/ executeStep \/ resetCycleOf

SpecAI == Init /\ [][NextAI]_vars

-----------------------------------------------------------------------------
(* Properties of the AI service manager *)

\* The models of the quota state q that candidate c names.
modelsOf(q, c) ==
  {i \in 1..Len(q[c.provider].models) : q[c.provider].models[i].id = c.modelId}

\* Model i of provider p is, in q, the provider's first model of its type
\* with quota left.
firstWithQuota(q, p, i) ==
  /\ q[p].models[i].remainingTokens > 0
  /\ \A j \in 1..(i - 1) :
       ~(q[p].models[j].type = q[p].models[i].type
         /\ q[p].models[j].remainingTokens > 0)

\* The type of the model candidate c names.
candidateType(q, c) ==
  q[c.provider].models[CHOOSE i \in modelsOf(q, c) : TRUE].type

\* C24: in auto mode the plan holds, for every provider with a heavy model
\* that has quota left, its first such model, in registration order, then
\* likewise the first standard model with quota left of every provider that
\* has one, and nothing else: no standard candidate comes before a heavy one
\* and no candidate has zero quota.
C24_FallbackOrdering ==
  (run.pc # "idle" /\ run.aiSettings.autoMode) =>
    LET plan == run.executionPlan
        q == run.quota
    IN /\ \A k \in 1..Len(plan) :
            /\ modelsOf(q, plan[k]) # {}
            /\ \A i \in modelsOf(q, plan[k]) : firstWithQuota(q, plan[k].provider, i)
       /\ \A p \in 1..Len(q) : \A i \in 1..Len(q[p].models) :
            firstWithQuota(q, p, i) =>
              Cardinality({k \in 1..Len(plan) :
                             plan[k] = [provider |-> p, modelId |-> q[p].models[i].id]}) = 1
       /\ \A k \in 1..Len(plan) : \A l \in (k + 1)..Len(plan) :
            /\ candidateType(q, plan[k]) = "standard"
                 => candidateType(q, plan[l]) = "standard"
            /\ candidateType(q, plan[k]) = candidateType(q, plan[l])
                 => plan[k].provider < plan[l].provider

\* An auto mode plan made while one provider's heavy model and another
\* provider's standard model had no quota left, holding candidates of both
\* types.
C24_Witness ==
  /\ run.pc # "idle"
  /\ run.aiSettings.autoMode
  /\ \E p, r \in 1..Len(run.quota) :
       /\ p # r
       /\ \E i \in 1..Len(run.quota[p].models) :
            /\ run.quota[p].models[i].type = "heavy"
            /\ run.quota[p].models[i].remainingTokens = 0
       /\ \E i \in 1..Len(run.quota[r].models) :
            /\ run.quota[r].models[i].type = "standard"
            /\ run.quota[r].models[i].remainingTokens = 0
  /\ \E k, l \in 1..Len(run.executionPlan) :
       /\ candidateType(run.quota, run.executionPlan[k]) = "heavy"
       /\ candidateType(run.quota, run.executionPlan[l]) = "standard"

\* C25: the attempts of a call are the plan's candidates in order, each made
\* after all earlier ones failed; a returned call ends with the one
\* successful attempt and carries that candidate's data; a raised call had
\* an empty plan or saw every candidate fail; and a manual mode plan holds
\* nothing but the selected provider with the selected model.
C25_FallbackExecution ==
  LET plan == run.executionPlan
      log == run.log
  IN /\ Len(log) <= Len(plan)
     /\ \A k \in 1..Len(log) : log[k].step = k
     /\ \A k \in 1..(Len(log) - 1) : ~log[k].ok
     /\ run.pc = "running" => (\A k \in 1..Len(log) : ~log[k].ok) /\ run.step = Len(log) + 1
     /\ run.pc = "returned" =>
          /\ Len(log) >= 1
          /\ log[Len(log)].ok
          /\ run.data.provider = run.quota[plan[Len(log)].provider].name
          /\ plan[Len(log)].modelId # "" => run.data.model = plan[Len(log)].modelId
     /\ run.pc = "raised" =>
          \/ Len(plan) = 0
          \/ Len(log) = Len(plan) /\ \A k \in 1..Len(log) : ~log[k].ok
     /\ (run.pc # "idle" /\ ~run.aiSettings.autoMode) =>
          /\ Len(plan) <= 1
          /\ \A k \in 1..Len(plan) :
               /\ run.quota[plan[k].provider].name = run.aiSettings.selectedProvider
               /\ plan[k].modelId = run.aiSettings.selectedModel

\* A call that returned the second candidate's data after the first failed.
C25_Witness ==
  /\ run.pc = "returned"
  /\ Len(run.log) = 2
  /\ ~run.log[1].ok
  /\ run.log[2].ok
  /\ Len(run.executionPlan) > 2
  /\ run.data.provider = run.quota[run.executionPlan[2].provider].name

\* The sum of the remaining quota of a list of models.
RECURSIVE quotaSum(_)
quotaSum(models) ==
  IF models = <<>> THEN 0 ELSE Head(models).remainingTokens + quotaSum(Tail(models))

RECURSIVE amountSum(_)
amountSum(amounts) ==
  IF amounts = <<>> THEN 0 ELSE Head(amounts) + amountSum(Tail(amounts))

\* What the deductTokens calls recorded in c took from model i of provider p.
chargedTo(c, ps, p, i) ==
  IF c.provider = p /\ ps[p].models[i].id = c.modelId
       /\ (\A j \in 1..(i - 1) : ps[p].models[j].id # c.modelId)
  THEN amountSum(c.amounts) ELSE 0

\* C27: every model's remaining quota stays between 0 and its maximum, and a
\* provider reports EXHAUSTED exactly when its models' remaining quota sums
\* to 0; an attempt takes what it deducts from the model it used, leaving 0
\* when that is more than the model had, and changes no other quota;
\* resetCycle makes the quotas of a provider full again and changes no
\* other.
C27_QuotaBookkeeping ==
  /\ [](\A p \in 1..Len(providers) :
         /\ \A i \in 1..Len(providers[p].models) :
              /\ 0 <= providers[p].models[i].remainingTokens
              /\ providers[p].models[i].remainingTokens <= providers[p].models[i].maxTokens
         /\ getStats(providers[p]).status = "EXHAUSTED"
              <=> quotaSum(providers[p].models) = 0)
  /\ [][Len(run'.log) = Len(run.log) + 1 =>
          \A p \in 1..Len(providers) : \A i \in 1..Len(providers[p].models) :
            LET before == providers[p].models[i].remainingTokens
                amount == chargedTo(run'.charged, providers, p, i)
            IN providers'[p].models[i].remainingTokens =
                 IF amount > before THEN 0 ELSE before - amount]_vars
  /\ [][(run' = run /\ providers' # providers) =>
          \E p \in 1..Len(providers) :
            /\ \A i \in 1..Len(providers[p].models) :
                 providers'[p].models[i].remainingTokens = providers[p].models[i].maxTokens
            /\ \A r \in 1..Len(providers) : r # p => providers'[r] = providers[r]]_vars

\* An attempt has deducted more than its partly used model had left, which
\* leaves the model at 0 and its provider EXHAUSTED.
C27_Witness ==
  /\ run.pc = "returned"
  /\ \E i \in 1..Len(providers[run.charged.provider].models) :
       LET m == providers[run.charged.provider].models[i]
           was == run.quota[run.charged.provider].models[i]
       IN /\ m.id = run.charged.modelId
          /\ Len(run.log) = 1
          /\ was.remainingTokens > 0
          /\ was.remainingTokens < was.maxTokens
          /\ amountSum(run.charged.amounts) > was.remainingTokens
          /\ m.remainingTokens = 0
  /\ getStats(providers[run.charged.provider]).status = "EXHAUSTED"

-----------------------------------------------------------------------------
(* Sanitizing an AI response *)

\* the characters \s matches and trim strips, among those of the model
Whitespace == {" ", "\t"}

\* String.prototype.trim
RECURSIVE trim(_)
trim(s) ==
  IF s = <<>> THEN s
  ELSE IF Head(s) \in Whitespace THEN trim(Tail(s))
  ELSE IF s[Len(s)] \in Whitespace THEN trim(SubSeq(s, 1, Len(s) - 1))
  ELSE s

\* replace(/\s+/g, '_'): every maximal run of whitespace becomes one '_'
RECURSIVE replaceWhitespaceRuns(_)
replaceWhitespaceRuns(s) ==
  IF s = <<>> THEN s
  ELSE IF Head(s) \in Whitespace
       THEN IF Len(s) > 1 /\ s[2] \in Whitespace
            THEN replaceWhitespaceRuns(Tail(s))
            ELSE <<"_">> \o replaceWhitespaceRuns(Tail(s))
  ELSE <<Head(s)>> \o replaceWhitespaceRuns(Tail(s))

\* cleanId without the replacement of whitespace.
cleanIdNoReplace(id) == trim(toLowerCase(id))

\* id.toLowerCase().trim().replace(/\s+/g, '_')
cleanId(id) == replaceWhitespaceRuns(trim(toLowerCase(id)))

\* Array.from(new Map(nodes.map(node => [node.id, node])).values()): one
\* node per id, at the place of the id's first node, and the id's last node.
RECURSIVE uniqueNodes(_)
uniqueNodes(ns) ==
  IF ns = <<>> THEN <<>>
  ELSE LET front == uniqueNodes(SubSeq(ns, 1, Len(ns) - 1))
           n == ns[Len(ns)]
       IN IF \E i \in 1..Len(front) : front[i].id = n.id
          THEN [i \in 1..Len(front) |-> IF front[i].id = n.id THEN n ELSE front[i]]
          ELSE Append(front, n)

\* sanitizeGraphData: ids cleaned and tags defaulted, one node per id, links
\* with cleaned endpoints, kept when both are ids of the remaining nodes.
sanitizeGraphData(data) ==
  LET cleaned == [i \in 1..Len(data.nodes) |->
                    [data.nodes[i] EXCEPT
                       !.id = cleanId(@),
                       !.tags = IF @.some THEN @ ELSE Arr(<<>>)]]
      unique == uniqueNodes(cleaned)
      nodeIds == {unique[i].id : i \in 1..Len(unique)}
      cleanedLinks == [i \in 1..Len(data.links) |->
                         [data.links[i] EXCEPT
                            !.source = cleanId(@), !.target = cleanId(@)]]
  IN [nodes |-> unique,
      links |-> SelectSeq(cleanedLinks,
                          LAMBDA l : l.source \in nodeIds /\ l.target \in nodeIds)]

\* Id strings an AI response may hold: upper case, blanks at the ends,
\* whitespace runs inside, an id already clean, the empty string.
RawIds ==
  {<<"a", "_", "b">>, <<"A", " ", "b">>, <<" ", "a", "\t", " ", "B", " ">>,
   <<"a", "b">>, <<"A", "B", "\t">>, <<"b">>, <<" ">>, <<>>}

\* The nodes of a response: the label tells the place in the response.
RawNodes(k) ==
  {[i \in 1..k |-> [id |-> idOf[i], label |-> <<"first", "second", "third">>[i],
                    tags |-> tagsOf[i]]] :
     idOf \in [1..k -> RawIds], tagsOf \in [1..k -> {Undef, Arr(<<"ufo">>)}]}

RawLinks(k) ==
  {[i \in 1..k |-> [source |-> ends[i][1], target |-> ends[i][2],
                    relation |-> "RELATED"]] :
     ends \in [1..k -> RawIds \X RawIds]}

\* The responses given to sanitizeGraphData on its own.
InitSanitize ==
  /\ nodes = INITIAL_NODES
  /\ links = INITIAL_LINKS
  /\ status = "IDLE"
  /\ calls = 0
  /\ last = NoCall
  /\ pending = NoPending
  /\ providers = AIServiceManager
  /\ run = NoRun
  /\ db = NoDb
  /\ probe \in {[kind |-> "sanitize", applied |-> FALSE,
                 data |-> [nodes |-> ns, links |-> ls],
                 batch |-> [nodes |-> <<>>, links |-> <<>>],
                 again |-> [nodes |-> <<>>, links |-> <<>>]] :
                 ns \in UNION {RawNodes(k) : k \in 0..MaxRawNodes},
                 ls \in UNION {RawLinks(k) : k \in 0..MaxRawLinks}}

\* The response is sanitized, and the batch returned is sanitized again.
ApplySanitize ==
  /\ probe.kind = "sanitize"
  /\ ~probe.applied
  /\ \E batch \in {sanitizeGraphData(probe.data)} :
       probe' = [probe EXCEPT !.applied = TRUE, !.batch = batch,
                              !.again = sanitizeGraphData(batch)]
  /\ UNCHANGED <<nodes, links, status, calls, last, pending, providers, run, db>>

NextSanitize == ApplySanitize

SpecSanitize == InitSanitize /\ [][NextSanitize]_vars

\* An id in canonical form: no upper-case letter and no whitespace.
Canonical(id) ==
  \A i \in 1..Len(id) : id[i] \notin Range(UpperCase) /\ id[i] \notin Whitespace

\* C26: the batch sanitizeGraphData returns has ids in canonical form, no
\* two nodes with the same id, and links whose endpoints are ids of its
\* nodes; sanitizing that batch again returns it unchanged.
C26_SanitizedWellFormed ==
  (probe.kind = "sanitize" /\ probe.applied) =>
    LET b == probe.batch
    IN /\ \A i \in 1..Len(b.nodes) : Canonical(b.nodes[i].id)
       /\ \A i, j \in 1..Len(b.nodes) : b.nodes[i].id = b.nodes[j].id => i = j
       /\ \A k \in 1..Len(b.links) :
            /\ \E i \in 1..Len(b.nodes) : b.nodes[i].id = b.links[k].source
            /\ \E i \in 1..Len(b.nodes) : b.nodes[i].id = b.links[k].target
       /\ probe.again = b

\* A response whose two nodes differ in id but not in cleaned id, with a
\* link that names them by yet another spelling: one node and the link are
\* returned.
C26_Witness ==
  /\ probe.kind = "sanitize"
  /\ probe.applied
  /\ Len(probe.data.nodes) = 2
  /\ probe.data.nodes[1].id # probe.data.nodes[2].id
  /\ Len(probe.batch.nodes) = 1
  /\ probe.batch.nodes[1].label = "second"
  /\ Len(probe.batch.links) = 1
  /\ probe.data.links[1].source \notin {probe.data.nodes[1].id, probe.data.nodes[2].id}
  /\ probe.batch.links[1].source # probe.data.links[1].source

-----------------------------------------------------------------------------
(* The store fed with entities that share an alias *)

id_reticulans == <<"r","e","t","i","c","u","l","a","n","s">>

\* An entity with an alias of its own: it matches no seed entity, and it
\* shares the alias with NewTheGreys.
NewReticulans == Node(id_reticulans, <<"R","e","t","i","c","u","l","a","n","s">>,
                      "Species", "Visitors from Zeta Reticuli", "Organization",
                      6, Undef, Arr(<< <<"Z","e","t","a">> >>))

AliasNodePool == {NewReticulans, NewFbi, NewTheGreys}

AliasLinkPool ==
  { Link(Id(id_reticulans), Id(id_fbi), "WATCHED_BY", 5),
    Link(Id(id_fbi), Id(id_the_greys), "HUNTS", 3) }

AliasNodeBatches == SeqsUpTo(AliasNodePool, MaxAliasBatch)

AliasLinkBatches == SeqsUpTo(AliasLinkPool, 1)

\* finishLoading, first timer, with a batch of these entities.
IngestAliases ==
  /\ status = "GENERATING"
  /\ ~last.called
  /\ \E newNodes \in AliasNodeBatches, newLinks \in AliasLinkBatches :
       addGraphData(newNodes, newLinks)
  /\ UNCHANGED status
  /\ UNCHANGED <<pending, probe, providers, run, db>>

NextAliases == handleGenerate \/ IngestAliases \/ ReIngest \/ finishLoadingReset

SpecAliases == Init /\ [][NextAliases]_vars

\* C28: when a graph with pairwise distinct ids, no dangling edge, no
\* self-loop and no duplicate unordered edge is consolidated with a batch
\* equal to its own entities and relations, the relation list returned is
\* the existing one.
C28_ReIngestionAddsNoRelations ==
  (/\ last.called
   /\ last.newNodes = last.existingNodes
   /\ last.newLinks = bareLinks(last.existingLinks)
   /\ \A i, j \in 1..Len(last.existingNodes) :
        i # j => last.existingNodes[i].id # last.existingNodes[j].id
   /\ \A k \in 1..Len(last.existingLinks) :
        /\ last.existingLinks[k].source.id \in idsOf(last.existingNodes)
        /\ last.existingLinks[k].target.id \in idsOf(last.existingNodes)
        /\ last.existingLinks[k].source.id # last.existingLinks[k].target.id
   /\ \A k, l \in 1..Len(last.existingLinks) :
        k # l => {last.existingLinks[k].source.id, last.existingLinks[k].target.id}
                 # {last.existingLinks[l].source.id, last.existingLinks[l].target.id})
  => links = last.existingLinks

-----------------------------------------------------------------------------
(* The store and its database *)

\* saveToDb's cleanNodes: tags and aliases default to an empty array.
cleanNodes(ns) ==
  [i \in 1..Len(ns) |->
     [ns[i] EXCEPT !.tags = IF @.some THEN @ ELSE Arr(<<>>),
                   !.aliases = IF @.some THEN @ ELSE Arr(<<>>)]]

\* saveToDb's cleanLinks: the endpoints as bare id strings.
cleanLinks(ls) ==
  [i \in 1..Len(ls) |->
     [source |-> rawId(ls[i].source), target |-> rawId(ls[i].target),
      relation |-> ls[i].relation, weight |-> ls[i].weight]]

\* saveToDb up to its first await: the rows are made from the store as it is
\* and the call goes on step by step.
saveToDb(d, ns, ls) ==
  [d EXCEPT !.saves = Append(@, [cleanNodes |-> cleanNodes(ns),
                                 cleanLinks |-> cleanLinks(ls),
                                 pc |-> "nodes.clear"]),
            !.count = @ + 1]

\* The next database operation of the saveToDb call i: the node table is
\* keyed by id, so a put replaces the row of its id; the link table's key is
\* auto-incremented, so a put of rows without a key adds rows.  After its
\* last operation the call is over.
stepOfSave(d, i) ==
  LET s == d.saves[i]
  IN IF s.pc = "nodes.clear"
     THEN [d EXCEPT !.nodes = <<>>, !.saves[i].pc = "links.clear"]
     ELSE IF s.pc = "links.clear"
     THEN [d EXCEPT !.links = <<>>, !.saves[i].pc = "nodes.bulkPut"]
     ELSE IF s.pc = "nodes.bulkPut"
     THEN [d EXCEPT !.nodes = uniqueNodes(@ \o s.cleanNodes),
                    !.saves[i].pc = "links.bulkPut"]
     ELSE [d EXCEPT !.links = @ \o s.cleanLinks,
                    !.saves = [k \in 1..(Len(@) - 1) |->
                                 IF k < i THEN @[k] ELSE @[k + 1]]]

\* The app mounted on an empty database: loadFromDb finds nothing, the node
\* count is 0 and the seed graph is being saved.
InitDb ==
  /\ nodes = INITIAL_NODES
  /\ links = INITIAL_LINKS
  /\ status = "IDLE"
  /\ calls = 0
  /\ last = NoCall
  /\ pending = NoPending
  /\ probe = NoProbe
  /\ providers = AIServiceManager
  /\ run = NoRun
  /\ db = saveToDb(NoDb, INITIAL_NODES, INITIAL_LINKS)

\* finishLoading, first timer: the batch is ingested and saveToDb is called
\* on the store's new graph, without being awaited.
IngestAndSave ==
  /\ status = "GENERATING"
  /\ ~last.called
  /\ Len(db.saves) < MaxSaves
  /\ \E data \in RequestBatches : addGraphData(data.nodes, data.links)
  /\ db' = saveToDb(db, nodes', links')
  /\ UNCHANGED <<status, pending, probe, providers, run>>

\* A saveToDb call in flight gets on by one database operation.
saveStep ==
  /\ \E i \in 1..Len(db.saves) : db' = stepOfSave(db, i)
  /\ UNCHANGED <<nodes, links, status, calls, last, pending, probe, providers, run>>

NextDb == handleGenerate \/ IngestAndSave \/ finishLoadingReset \/ saveStep

SpecDb == InitDb /\ [][NextDb]_vars

\* The rows of a table as a bag: how many times each row occurs.
rowCount(table, row) == Cardinality({i \in 1..Len(table) : table[i] = row})

\* C29: once no saveToDb call is in flight, the node table holds exactly the
\* store's entities and the link table exactly one row per relation of the
\* store, with bare ids as endpoints.
C29_SnapshotMatchesStore ==
  Len(db.saves) = 0 =>
    /\ Range(db.nodes) = Range(cleanNodes(nodes))
    /\ Len(db.nodes) = Len(nodes)
    /\ \A row \in Range(db.links) \cup Range(cleanLinks(links)) :
         rowCount(db.links, row) = rowCount(cleanLinks(links), row)

-----------------------------------------------------------------------------
(* Generation requests and provider switching *)

\* executeWithFallback, working for a pending request, goes on to the next
\* candidate after a failed attempt: setStatus('SWITCHING_PROVIDER').
switchingProvider ==
  /\ Len(pending.requests) > 0
  /\ status # "SWITCHING_PROVIDER"
  /\ status' = "SWITCHING_PROVIDER"
  /\ UNCHANGED <<nodes, links, calls, last, pending, probe, providers, run, db>>

NextGeneration == NextPending \/ switchingProvider

SpecGeneration == Init /\ [][NextGeneration]_vars

\* C30: while a request is in flight (started, and neither ingested nor
\* reported as failed) the status is GENERATING, and no second request is in
\* flight with it.
C30_OneGenerationInFlight ==
  /\ Len(pending.requests) > 0 => status = "GENERATING"
  /\ Len(pending.requests) <= 1

====
